---- MODULE Spec2Model ----
(***************************************************************************)
(* The debate orchestration engine of CourtTableAI                         *)
(* (pkg/orchestrator/debate_engine.go) together with the persistence       *)
(* gateway (package database) and the adapter's call contract.             *)
(*                                                                         *)
(* A string is a sequence of symbols.  A response content is a sequence of *)
(* one-character symbols; the fixed texts the engine writes (a context     *)
(* header, a moderator tag, an error text) are one symbol each, and "\n"   *)
(* is the newline symbol.                                                  *)
(***************************************************************************)
EXTENDS Integers, Sequences, FiniteSets, TLC

VARIABLES
    dbDiscussion,   \* the row of table discussions for the debate, or NoRecord
    dbLogs,         \* the rows of table discussion_logs, in insertion order
    runResult,      \* what RunDebate returned: "none" (not called), "ok", "error"
    createPc,       \* position of the RunDebate caller when its steps are followed
    request,        \* the arguments of the RunDebate call in progress
    pending,        \* getAgents: the lookups (positions of the id list) still running
    found,          \* getAgents: the slice agents as appended so far
    lookupErrs,     \* getAgents: errors sent to errChan
    handed,         \* the status the caller reads in the record RunDebate returned
    lastID,         \* the highest id table discussions has given out
    spawned,        \* history: engine tasks started, per discussion id
    firstLog,       \* history: the persisted log of an earlier run of the same request
    discussion,     \* the *models.Discussion the engine task holds
    agents,         \* the []*models.Agent slice getAgents returned (agent ids)
    pc,             \* position of the engine task (executeDebate)
    round,          \* loop variable round
    idx,            \* loop variable i, 1-based
    roundActive,    \* roundActive of the current round
    debateContext,  \* the strings.Builder debateContext
    modKind,        \* moderatorType of the interjection in progress
    response,       \* response.Content of the last participant call
    logEntry,       \* the logEntry saved and not yet broadcast
    panicked,       \* a runtime fault unwound the engine task
    stopPc,         \* position of each StopDiscussion caller
    stopCopy,       \* the record each StopDiscussion caller read
    stoppedAt,      \* history: the call in flight when a stop succeeded, if any
    retryPc,        \* position of the RetryFailedAgent caller
    retryAgent,     \* agentID of the retry in progress
    retryCtx,       \* contextBuilder.String() of the retry in progress
    retryResult,    \* what the last RetryFailedAgent call returned
    retryCount,     \* RetryFailedAgent calls made so far
    retryCalls,     \* adapter invocations of the retry in progress / last retry
    subscribers,    \* de.subscribers: discussion id -> sequence of channels
    chans,          \* every channel Subscribe made: state, key and buffer
    sendOnClosed,   \* broadcast sent on a closed channel (a runtime fault)
    failures,       \* adapter calls of the engine task that failed so far
    calls,          \* history: the adapter calls of the engine task, in order
    produced,       \* history: the log entries the engine task built, in order
    offered,        \* history: the events handed to broadcast, in order
    agent,          \* the *models.Agent an adapter invocation is given
    adapterPc,      \* position of the adapter invocation (CallAgent or Ping)
    adapterOp,      \* which of CallAgent and Ping is invoked
    attempts,       \* history: the HTTP requests of the invocation, in order
    elapsed,        \* seconds since the invocation started
    adapterOut      \* what the invocation returned

runVars == <<runResult, createPc, request, pending, found, lookupErrs, handed, lastID,
             spawned, firstLog>>

adapterVars == <<agent, adapterPc, adapterOp, attempts, elapsed, adapterOut>>

vars == <<adapterVars, dbDiscussion, dbLogs, runVars, discussion, agents, pc, round, idx,
          roundActive, debateContext, modKind, response, logEntry, panicked,
          stopPc, stopCopy, stoppedAt, retryPc, retryAgent, retryCtx, retryResult,
          retryCount, retryCalls, subscribers, chans, sendOnClosed, failures,
          calls, produced, offered>>

engineVars == <<discussion, agents, pc, round, idx, roundActive, debateContext,
                modKind, response, logEntry, panicked, failures, calls, produced>>
stopVars == <<stopPc, stopCopy, stoppedAt>>
retryVars == <<retryPc, retryAgent, retryCtx, retryResult, retryCount, retryCalls>>
subVars == <<subscribers, chans, sendOnClosed>>

----------------------------------------------------------------------------
(* Bounds of the model *)

NumAgents == 2          \* agents 1..NumAgents exist in table agents
MaxFailures == 2        \* adapter calls of the engine task that may fail
MaxRoundsArg == 1       \* a request carries maxRounds in 0..MaxRoundsArg
MaxLimit == 1           \* a request carries maxCharLimit in -1..MaxLimit
MaxStopCalls == 2       \* StopDiscussion callers
MaxRetryCalls == 1      \* RetryFailedAgent calls
MaxSubs == 2            \* channels Subscribe may make
MaxViewers == 1         \* channels made while an engine task is modelled
MaxEvents == 11         \* events of the debate handed to broadcast by Publish
MaxDiscussionID == 2    \* discussion ids a listener may name
MaxUnsaved == 1         \* writes of a log entry that may fail

(* Program constants *)

DefaultRounds == 3      \* executeDebate: maxRounds = 3 // Default fallback
BufferSize == 10        \* Subscribe: make(chan interface{}, 10)

----------------------------------------------------------------------------
(* Values *)

None == 0
NoRecord == [Status |-> "absent", FinalSummary |-> <<>>]
NoEntry == [ID |-> 0, DiscussionID |-> 0, AgentID |-> 0, Content |-> <<>>,
            Status |-> "none", IsModerator |-> FALSE]
NoDiscussion == [ID |-> 0, Status |-> "none", FinalSummary |-> <<>>,
                 AgentIDs |-> <<>>, ModeratorID |-> None, MaxRounds |-> 0,
                 MaxCharLimit |-> 0]

NoAgent == [ProviderType |-> "", ProviderURL |-> <<>>, APIToken |-> "",
            TimeoutSeconds |-> 0]

NoRequest == [agentIDs |-> <<>>, moderatorID |-> None, maxRounds |-> 0,
              maxCharLimit |-> 0]
NoLog == <<"no log">>

NoStop == [calls |-> 0, inflight |-> FALSE]

KnownAgents == 1..NumAgents
UnknownAgent == NumAgents + 1
ModeratorAgent == NumAgents
DebateID == 1
DiscussionIDs == 1..MaxDiscussionID
Channels == 1..MaxSubs
StopCallers == 1..MaxStopCalls

NL == "\n"
Topic == "T"

(* The content agent a answers with when its call succeeds: a symbols. *)
ContentOf(a) == [i \in 1..a |-> "c" \o ToString(a)]

(* What CallAgent can return: a response and an error. *)
Responses(a) ==
    { [Err |-> FALSE, Success |-> TRUE, Content |-> ContentOf(a), ErrorMessage |-> ""],
      [Err |-> TRUE, Success |-> FALSE, Content |-> <<>>, ErrorMessage |-> "e"],
      [Err |-> FALSE, Success |-> FALSE, Content |-> <<>>, ErrorMessage |-> "e"] }

----------------------------------------------------------------------------
(* Requests to RunDebate *)

IdLists ==
    UNION { {s \in [1..n -> KnownAgents \cup {UnknownAgent}] :
                \A i, j \in 1..n : i # j => s[i] # s[j]} : n \in 1..NumAgents }

Requests ==
    [agentIDs : IdLists,
     moderatorID : {None, ModeratorAgent, UnknownAgent},
     maxRounds : 0..MaxRoundsArg,
     maxCharLimit : -1..MaxLimit]

(* getAgents: one goroutine per id appends the agent it found to the shared
   slice, so the slice is in the order the lookups complete. *)
Perms(s) ==
    { [i \in 1..Len(s) |-> s[p[i]]] :
        p \in {f \in [1..Len(s) -> 1..Len(s)] :
                 \A i, j \in 1..Len(s) : i # j => f[i] # f[j]} }

getAgents(agentIDs) ==
    IF \E i \in 1..Len(agentIDs) : agentIDs[i] \notin KnownAgents
    THEN {[err |-> TRUE, agents |-> <<>>]}
    ELSE {[err |-> FALSE, agents |-> o] : o \in Perms(agentIDs)}

----------------------------------------------------------------------------
(* Persistence gateway *)

(* a gateway that takes rows only while the debate is running *)
SavedWhileRunning(logs, e) ==
    IF dbDiscussion.Status = "running" THEN [e EXCEPT !.ID = Len(logs) + 1]
    ELSE [e EXCEPT !.ID = 0]

(* the row as stored: LastInsertId becomes its ID *)
Saved(logs, e) == [e EXCEPT !.ID = Len(logs) + 1]

(* a gateway that puts the new row in front *)
InsertDiscussionLogNewestFirst(logs, e) == <<Saved(logs, e)>> \o logs

(* a gateway that stores no row with status error *)
InsertDiscussionLogLossy(logs, e) ==
    IF e.Status = "error" THEN logs ELSE Append(logs, Saved(logs, e))

InsertDiscussionLog(logs, e) == Append(logs, Saved(logs, e))

UpdateDiscussion(db, d) ==
    IF db = NoRecord THEN db
    ELSE [Status |-> d.Status, FinalSummary |-> d.FinalSummary]

----------------------------------------------------------------------------
(* Broadcaster *)

CanSend(c) == Len(chans[c].buf) < BufferSize

(* a broadcast that puts the event ahead of the ones waiting *)
broadcastAhead(id, data) ==
    [c \in Channels |->
        IF /\ \E i \in 1..Len(subscribers[id]) : subscribers[id][i] = c
           /\ chans[c].state = "open"
           /\ CanSend(c)
        THEN [chans[c] EXCEPT !.buf = <<data>> \o @]
        ELSE chans[c]]

(* broadcast: a select with a default branch per subscribed channel. *)
broadcast(id, data) ==
    [c \in Channels |->
        IF /\ \E i \in 1..Len(subscribers[id]) : subscribers[id][i] = c
           /\ chans[c].state = "open"
           /\ CanSend(c)
        THEN [chans[c] EXCEPT !.buf = Append(@, data)]
        ELSE chans[c]]

broadcastPanics(id) ==
    \E i \in 1..Len(subscribers[id]) : chans[subscribers[id][i]].state = "closed"

LogEvent(e) == [kind |-> "log", id |-> e.DiscussionID, log |-> e, disc |-> NoDiscussion]
DiscussionEvent(d) == [kind |-> "discussion", id |-> d.ID, log |-> NoEntry, disc |-> d]

Subscribed(id, c) == \E i \in 1..Len(subscribers[id]) : subscribers[id][i] = c

(* a broadcast that sends without a default branch: it waits for room *)
broadcastWaitsForRoom(id) == \A c \in Channels : Subscribed(id, c) => CanSend(c)

(* the select has a default branch: broadcast waits for no listener *)
broadcastReady(id) == TRUE

DoBroadcast(id, ev) ==
    /\ broadcastReady(id)
    /\ chans' = broadcast(id, ev)
    /\ sendOnClosed' = (sendOnClosed \/ broadcastPanics(id))
    /\ offered' = Append(offered, ev)
    /\ UNCHANGED subscribers

----------------------------------------------------------------------------
(* Engine task: executeDebate *)

(* a round limit one round too long *)
EffectiveRoundsOneMore(d) == (IF d.MaxRounds <= 0 THEN DefaultRounds ELSE d.MaxRounds) + 1

EffectiveRounds(d) == IF d.MaxRounds <= 0 THEN DefaultRounds ELSE d.MaxRounds

Header(r, a) == "Round " \o ToString(r) \o " - Agent " \o ToString(a) \o ":"

(* a slice expression that takes any bound *)
TruncationPanicsNever(content, limit) == FALSE

(* content[:MaxCharLimit] faults when the limit is negative *)
TruncationPanics(content, limit) == Len(content) > limit /\ limit < 0

Truncate(content, limit) ==
    IF Len(content) > limit THEN SubSeq(content, 1, limit) ELSE content

(* a context writer that forgets what it held *)
AppendContextForgetful(ctx, r, a, content) == <<Header(r, a), NL>> \o content

AppendContext(ctx, r, a, content) ==
    (IF Len(ctx) > 0 THEN ctx \o <<NL, NL>> ELSE ctx) \o <<Header(r, a), NL>> \o content

getModeratorRole(kind) ==
    CASE kind = "opening" -> "Opening Remarks"
      [] kind = "interim" -> "Interim Moderation"
      [] kind = "round_summary" -> "Round Summary"
      [] kind = "closing" -> "Closing Remarks"
      [] OTHER -> "Moderation"

ModeratorContent(kind, content) ==
    <<"[Moderator - " \o getModeratorRole(kind) \o "]", NL>> \o content

(* strings.Split(context, "\n") *)
RECURSIVE SplitLines(_, _)
SplitLines(s, cur) ==
    IF s = <<>> THEN <<cur>>
    ELSE IF Head(s) = NL THEN <<cur>> \o SplitLines(Tail(s), <<>>)
    ELSE SplitLines(Tail(s), Append(cur, Head(s)))

NoResponses == <<"No responses were generated during this debate.">>

RECURSIVE Bullets(_, _)
Bullets(lines, n) ==
    IF n = 0 \/ lines = <<>> THEN <<>>
    ELSE (IF Head(lines) # <<>> THEN <<"- ">> \o Head(lines) \o <<NL>> ELSE <<>>)
         \o Bullets(Tail(lines), n - 1)

generateSummary(topic, context) ==
    IF context = <<>> THEN NoResponses
    ELSE LET lines == SplitLines(context, <<>>)
         IN  <<"Debate Summary for: " \o topic, NL, NL,
               "The debate involved multiple AI agents discussing this topic. ",
               "Each agent provided their perspective and responded to others' arguments. ",
               "For detailed discussion, please review the individual agent responses.",
               NL, NL>>
             \o (IF Len(lines) > 5
                 THEN <<"Key points discussed:", NL>> \o Bullets(lines, 5)
                      \o <<"... (see full discussion for more details)">>
                 ELSE <<>>)

(* Where the task continues; a control point is [pc, round, idx, roundActive, modKind]. *)
Ctl(p, r, i, ra, k) == [pc |-> p, round |-> r, idx |-> i, roundActive |-> ra, modKind |-> k]

Goto(c) ==
    /\ pc' = c.pc
    /\ round' = c.round
    /\ idx' = c.idx
    /\ roundActive' = c.roundActive
    /\ modKind' = c.modKind

HasModerator == discussion.ModeratorID # None

ExitLoop(ra) ==
    IF HasModerator THEN Ctl("mod_call", round, idx, ra, "closing")
    ELSE Ctl("final", round, idx, ra, "")

(* a loop that goes on when the newest persisted entry is a success *)
AfterRoundByLog(ra) ==
    IF /\ ra \/ (dbLogs # <<>> /\ dbLogs[Len(dbLogs)].Status = "success")
       /\ round + 1 <= EffectiveRounds(discussion)
    THEN Ctl("call", round + 1, 1, FALSE, "")
    ELSE ExitLoop(ra)

(* a loop body without the break *)
AfterRoundUnbroken(ra) ==
    IF round + 1 <= EffectiveRounds(discussion)
    THEN Ctl("call", round + 1, 1, FALSE, "")
    ELSE ExitLoop(ra)

(* the end of the loop body: break when the round had no success *)
AfterRound(ra) ==
    IF ra /\ round + 1 <= EffectiveRounds(discussion)
    THEN Ctl("call", round + 1, 1, FALSE, "")
    ELSE ExitLoop(ra)

EndOfRound(ra) ==
    IF HasModerator THEN Ctl("mod_call", round, idx, ra, "round_summary")
    ELSE AfterRound(ra)

NextParticipant(ra) ==
    IF idx < Len(agents) THEN Ctl("call", round, idx + 1, ra, "")
    ELSE EndOfRound(ra)

AfterTurn(ra) ==
    IF HasModerator /\ idx < Len(agents)
    THEN Ctl("mod_call", round, idx, ra, "interim")
    ELSE NextParticipant(ra)

AfterModerator(kind, ra) ==
    CASE kind = "opening" -> Ctl("call", 1, 1, FALSE, "")
      [] kind = "interim" -> NextParticipant(ra)
      [] kind = "round_summary" -> AfterRound(ra)
      [] OTHER -> Ctl("final", round, idx, ra, "")

----------------------------------------------------------------------------
(* Initial state: an empty database, no debate, no listener *)

Init ==
    /\ dbDiscussion = NoRecord
    /\ dbLogs = <<>>
    /\ runResult = "none"
    /\ createPc = "idle"
    /\ request = NoRequest
    /\ pending = {}
    /\ found = <<>>
    /\ lookupErrs = 0
    /\ handed = "none"
    /\ lastID = 0
    /\ spawned = [d \in DiscussionIDs |-> 0]
    /\ firstLog = NoLog
    /\ discussion = NoDiscussion
    /\ agents = <<>>
    /\ pc = "idle"
    /\ round = 0
    /\ idx = 0
    /\ roundActive = FALSE
    /\ debateContext = <<>>
    /\ modKind = ""
    /\ response = <<>>
    /\ logEntry = NoEntry
    /\ panicked = FALSE
    /\ stopPc = [s \in StopCallers |-> "idle"]
    /\ stopCopy = [s \in StopCallers |-> NoRecord]
    /\ stoppedAt = [s \in StopCallers |-> NoStop]
    /\ retryPc = "idle"
    /\ retryAgent = None
    /\ retryCtx = <<>>
    /\ retryResult = "none"
    /\ retryCount = 0
    /\ retryCalls = 0
    /\ subscribers = [d \in DiscussionIDs |-> <<>>]
    /\ chans = [c \in Channels |-> [state |-> "unused", key |-> 0, buf |-> <<>>]]
    /\ sendOnClosed = FALSE
    /\ failures = 0
    /\ calls = <<>>
    /\ produced = <<>>
    /\ offered = <<>>
    /\ agent = NoAgent
    /\ adapterPc = "idle"
    /\ adapterOp = "none"
    /\ attempts = <<>>
    /\ elapsed = 0
    /\ adapterOut = "none"

----------------------------------------------------------------------------
(* RunDebate *)

(* an insert that gives out the newest id again *)
FreshIDReused(last) == IF last = 0 THEN 1 ELSE last

(* INSERT ... AUTOINCREMENT: the id after the highest one given out *)
FreshID(last) == last + 1

(* go de.executeDebate(...) *)
SpawnTask(sp, id) == [sp EXCEPT ![id] = @ + 1]

(* every participant id and the moderator id was found *)
Resolved(req, got) ==
    ~got.err /\ (req.moderatorID = None \/ req.moderatorID \in KnownAgents)

(* the moderator lookup, InsertDiscussion and the start of the engine task,
   for the outcome got of getAgents *)
CreateDiscussion(req, got) ==
    IF ~Resolved(req, got)
    THEN UNCHANGED <<dbDiscussion, engineVars, lastID, spawned>>
    ELSE /\ lastID' = FreshID(lastID)
         /\ dbDiscussion' = [Status |-> "running", FinalSummary |-> <<>>]
         /\ discussion' = [ID |-> FreshID(lastID), Status |-> "running",
                           FinalSummary |-> <<>>, AgentIDs |-> req.agentIDs,
                           ModeratorID |-> req.moderatorID,
                           MaxRounds |-> req.maxRounds,
                           MaxCharLimit |-> req.maxCharLimit]
         /\ agents' = got.agents
         /\ spawned' = SpawnTask(spawned, FreshID(lastID))
         /\ IF req.moderatorID # None
            THEN Goto(Ctl("mod_call", 0, 0, FALSE, "opening"))
            ELSE Goto(Ctl("call", 1, 1, FALSE, ""))
         /\ UNCHANGED <<debateContext, response, logEntry, panicked, failures, calls,
                        produced>>

(* RunDebate as the engine task and the other operations see it: the lookups,
   the insert and the start of the task in one step *)
RunDebateOf(req) ==
    /\ runResult = "none"
    /\ createPc = "idle"
    /\ \E got \in getAgents(req.agentIDs) :
         /\ CreateDiscussion(req, got)
         /\ runResult' = IF Resolved(req, got) THEN "ok" ELSE "error"
    /\ UNCHANGED <<createPc, request, pending, found, lookupErrs, handed, firstLog>>
    /\ UNCHANGED <<adapterVars, dbLogs, stopVars, retryVars, subVars, offered>>

RunDebate == \E req \in Requests : RunDebateOf(req)

(* requests that state their number of rounds *)
RoundedRequests == {req \in Requests : req.maxRounds > 0}

RunDebateRounded == \E req \in RoundedRequests : RunDebateOf(req)

----------------------------------------------------------------------------
(* RunDebate, step by step: the lookups of getAgents, the insert, the return *)

RunDebateCall(req) ==
    /\ runResult = "none"
    /\ createPc = "idle"
    /\ request' = req
    /\ pending' = 1..Len(req.agentIDs)
    /\ found' = <<>>
    /\ lookupErrs' = 0
    /\ createPc' = "lookups"
    /\ UNCHANGED <<adapterVars, runResult, handed, lastID, spawned, firstLog, dbDiscussion, dbLogs,
                   engineVars, stopVars, retryVars, subVars, offered>>

(* one goroutine of getAgents ends: the agent is appended, or the error sent *)
LookupDone(i) ==
    /\ createPc = "lookups"
    /\ i \in pending
    /\ pending' = pending \ {i}
    /\ IF request.agentIDs[i] \in KnownAgents
       THEN found' = Append(found, request.agentIDs[i]) /\ UNCHANGED lookupErrs
       ELSE lookupErrs' = lookupErrs + 1 /\ UNCHANGED found
    /\ UNCHANGED <<adapterVars, runResult, createPc, request, handed, lastID, spawned, firstLog,
                   dbDiscussion, dbLogs, engineVars, stopVars, retryVars, subVars,
                   offered>>

(* a getAgents that does not wait *)
LookupsDoneUnawaited == TRUE

(* wg.Wait() *)
LookupsDone == pending = {}

(* what getAgents returns once it goes on *)
LookupOutcome ==
    [err |-> lookupErrs > 0 \/ Len(found) # Len(request.agentIDs), agents |-> found]

(* getAgents returns; the moderator is looked up, the record inserted and the
   engine task started, or the error returned *)
RunDebateInsert ==
    /\ createPc = "lookups"
    /\ LookupsDone
    /\ CreateDiscussion(request, LookupOutcome)
    /\ IF Resolved(request, LookupOutcome)
       THEN createPc' = "returning" /\ UNCHANGED runResult
       ELSE createPc' = "done" /\ runResult' = "error"
    /\ UNCHANGED <<adapterVars, request, pending, found, lookupErrs, handed, firstLog, dbLogs,
                   stopVars, retryVars, subVars, offered>>

(* return discussion, nil: the caller reads the record it was handed, which is
   the record the engine task writes to *)
RunDebateReturn ==
    /\ createPc = "returning"
    /\ runResult' = "ok"
    /\ handed' = discussion.Status
    /\ createPc' = "done"
    /\ UNCHANGED <<adapterVars, request, pending, found, lookupErrs, lastID, spawned, firstLog,
                   dbDiscussion, dbLogs, engineVars, stopVars, retryVars, subVars,
                   offered>>

(* speaker and content of every row, in the order of the log *)
Transcript(logs) == [i \in 1..Len(logs) |-> <<logs[i].AgentID, logs[i].Content>>]

(* RunDebate called again with the request of the debate that has ended: a new
   record under a fresh id and a new engine task.  The variables then follow
   the second debate, dbLogs holding its rows; firstLog keeps the transcript
   of the first. *)
RunAgain ==
    /\ runResult = "ok"
    /\ pc = "done"
    /\ firstLog = NoLog
    /\ lastID < MaxDiscussionID
    /\ firstLog' = Transcript(dbLogs)
    /\ dbLogs' = <<>>
    /\ \E got \in getAgents(discussion.AgentIDs) :
         /\ ~got.err
         /\ agents' = got.agents
    /\ lastID' = FreshID(lastID)
    /\ spawned' = SpawnTask(spawned, FreshID(lastID))
    /\ dbDiscussion' = [Status |-> "running", FinalSummary |-> <<>>]
    /\ discussion' = [discussion EXCEPT !.ID = FreshID(lastID), !.Status = "running",
                                        !.FinalSummary = <<>>]
    /\ IF discussion.ModeratorID # None
       THEN Goto(Ctl("mod_call", 0, 0, FALSE, "opening"))
       ELSE Goto(Ctl("call", 1, 1, FALSE, ""))
    /\ debateContext' = <<>>
    /\ response' = <<>>
    /\ logEntry' = NoEntry
    /\ panicked' = FALSE
    /\ calls' = <<>>
    /\ produced' = <<>>
    /\ offered' = <<>>
    /\ UNCHANGED <<adapterVars, runResult, createPc, request, pending, found, lookupErrs, handed,
                   failures, stopVars, retryVars, subVars>>

(* a later RunDebate call, for a debate whose task is not followed here *)
RunDebateLater ==
    /\ lastID >= 1
    /\ lastID < MaxDiscussionID
    /\ lastID' = FreshID(lastID)
    /\ spawned' = SpawnTask(spawned, FreshID(lastID))
    /\ UNCHANGED <<adapterVars, runResult, createPc, request, pending, found, lookupErrs, handed,
                   firstLog, dbDiscussion, dbLogs, engineVars, stopVars, retryVars,
                   subVars, offered>>

----------------------------------------------------------------------------
(* executeDebate: a participant turn *)

ErrorContent(resp) == <<"Error: " \o resp.ErrorMessage>>

(* CallAgent(ctx, agent, prompt, debateContext.String()) is issued *)
EngineCall ==
    /\ pc = "call"
    /\ calls' = Append(calls, [AgentID |-> agents[idx], IsModerator |-> FALSE,
                               Round |-> round, Idx |-> idx, Kind |-> "turn",
                               Context |-> debateContext, Input |-> <<>>])
    /\ pc' = "inflight"
    /\ UNCHANGED <<dbDiscussion, dbLogs, runVars, adapterVars, discussion, agents, round, idx,
                   roundActive, debateContext, modKind, response, logEntry, panicked,
                   failures, produced, stopVars, retryVars, subVars, offered>>

(* an outcome branch with a status of its own for a call-level error *)
TurnStatusTimeout(resp) ==
    IF resp.Err THEN "timeout" ELSE IF ~resp.Success THEN "error" ELSE "success"

(* the outcome branch of a turn: err != nil, !response.Success, or success *)
TurnStatus(resp) == IF resp.Err \/ ~resp.Success THEN "error" ELSE "success"

TurnContent(resp, limit) ==
    IF resp.Err \/ ~resp.Success THEN ErrorContent(resp)
    ELSE Truncate(resp.Content, limit)

(* a turn that writes to debateContext whatever its outcome *)
TurnContextAlways(ctx, status, r, a, content) == AppendContext(ctx, r, a, content)

(* debateContext after the turn: only the success branch writes to it *)
TurnContext(ctx, status, r, a, content) ==
    IF status = "success" THEN AppendContext(ctx, r, a, content) ELSE ctx

(* the call returns; the entry is built and saved *)
EngineRespondOf(resp) ==
    /\ pc = "inflight"
    /\ response' = resp.Content
    /\ IF TurnStatus(resp) = "success"
          /\ TruncationPanics(resp.Content, discussion.MaxCharLimit)
       THEN /\ panicked' = TRUE
            /\ pc' = "defer"
            /\ UNCHANGED <<dbLogs, logEntry, produced, roundActive, debateContext,
                           failures>>
       ELSE LET status == TurnStatus(resp)
                content == TurnContent(resp, discussion.MaxCharLimit)
                e == [ID |-> 0, DiscussionID |-> discussion.ID, AgentID |-> agents[idx],
                      Content |-> content, Status |-> status, IsModerator |-> FALSE]
            IN  /\ IF status = "success"
                   THEN UNCHANGED failures
                   ELSE failures < MaxFailures /\ failures' = failures + 1
                /\ roundActive' = (roundActive \/ status = "success")
                /\ debateContext' = TurnContext(debateContext, status, round,
                                                agents[idx], content)
                /\ logEntry' = Saved(dbLogs, e)
                /\ dbLogs' = InsertDiscussionLog(dbLogs, e)
                /\ produced' = Append(produced, logEntry')
                /\ pc' = "bcast"
                /\ UNCHANGED panicked
    /\ UNCHANGED <<dbDiscussion, runVars, adapterVars, discussion, agents, round, idx, modKind,
                   calls, stopVars, retryVars, subVars, offered>>

(* the entries of the task whose write failed: log.ID is set only on success *)
Unsaved == {k \in 1..Len(produced) : produced[k].ID = 0}

(* the call returns and InsertDiscussionLog returns an error: the entry is
   built and the transcript written as in any turn, nothing is stored, the
   failure is printed and broadcast is skipped *)
EngineRespondUnsavedOf(resp) ==
    /\ pc = "inflight"
    /\ Cardinality(Unsaved) < MaxUnsaved
    /\ ~(TurnStatus(resp) = "success"
          /\ TruncationPanics(resp.Content, discussion.MaxCharLimit))
    /\ response' = resp.Content
    /\ LET status == TurnStatus(resp)
           content == TurnContent(resp, discussion.MaxCharLimit)
           e == [ID |-> 0, DiscussionID |-> discussion.ID, AgentID |-> agents[idx],
                 Content |-> content, Status |-> status, IsModerator |-> FALSE]
       IN  /\ IF status = "success"
              THEN UNCHANGED failures
              ELSE failures < MaxFailures /\ failures' = failures + 1
           /\ debateContext' = TurnContext(debateContext, status, round,
                                           agents[idx], content)
           /\ produced' = Append(produced, e)
           /\ Goto(AfterTurn(roundActive \/ status = "success"))
    /\ logEntry' = NoEntry
    /\ UNCHANGED <<dbDiscussion, dbLogs, runVars, adapterVars, discussion, agents, panicked,
                   calls, stopVars, retryVars, subVars, offered>>

EngineRespondUnsaved ==
    /\ pc = "inflight"
    /\ \E resp \in Responses(agents[idx]) : EngineRespondUnsavedOf(resp)

EngineRespond ==
    /\ pc = "inflight"
    /\ \E resp \in Responses(agents[idx]) : EngineRespondOf(resp)

(* de.broadcast(discussion.ID, logEntry), then on to the next call *)
EngineBroadcast ==
    /\ pc = "bcast"
    /\ DoBroadcast(discussion.ID, LogEvent(logEntry))
    /\ Goto(AfterTurn(roundActive))
    /\ logEntry' = NoEntry
    /\ UNCHANGED <<dbDiscussion, dbLogs, runVars, adapterVars, discussion, agents, debateContext,
                   response, panicked, failures, calls, produced, stopVars, retryVars>>

----------------------------------------------------------------------------
(* callModerator *)

(* an interim interjection fed the content as it was logged *)
ModeratorInputTruncated(kind) ==
    CASE kind = "interim" -> Truncate(response, discussion.MaxCharLimit)
      [] kind = "round_summary" -> <<"Round " \o ToString(round) \o " completed">>
      [] OTHER -> <<>>

ModeratorInput(kind) ==
    CASE kind = "interim" -> response
      [] kind = "round_summary" -> <<"Round " \o ToString(round) \o " completed">>
      [] OTHER -> <<>>

ModCall ==
    /\ pc = "mod_call"
    /\ calls' = Append(calls, [AgentID |-> discussion.ModeratorID, IsModerator |-> TRUE,
                               Round |-> round, Idx |-> idx, Kind |-> modKind,
                               Context |-> <<>>, Input |-> ModeratorInput(modKind)])
    /\ pc' = "mod_inflight"
    /\ UNCHANGED <<dbDiscussion, dbLogs, runVars, adapterVars, discussion, agents, round, idx,
                   roundActive, debateContext, modKind, response, logEntry, panicked,
                   failures, produced, stopVars, retryVars, subVars, offered>>

ModRespondOf(resp) ==
    /\ pc = "mod_inflight"
    /\ LET e == [ID |-> 0, DiscussionID |-> discussion.ID,
                 AgentID |-> discussion.ModeratorID,
                 Content |-> IF resp.Err \/ ~resp.Success
                             THEN <<"Moderator Error: " \o resp.ErrorMessage>>
                             ELSE ModeratorContent(modKind, resp.Content),
                 Status |-> IF resp.Err \/ ~resp.Success THEN "error" ELSE "success",
                 IsModerator |-> TRUE]
       IN  /\ logEntry' = Saved(dbLogs, e)
           /\ dbLogs' = InsertDiscussionLog(dbLogs, e)
           /\ produced' = Append(produced, logEntry')
    /\ IF resp.Err \/ ~resp.Success
       THEN failures < MaxFailures /\ failures' = failures + 1
       ELSE UNCHANGED failures
    /\ pc' = "mod_bcast"
    /\ UNCHANGED <<dbDiscussion, runVars, adapterVars, discussion, agents, round, idx, roundActive,
                   debateContext, modKind, response, panicked, calls, stopVars,
                   retryVars, subVars, offered>>

ModRespond ==
    /\ pc = "mod_inflight"
    /\ \E resp \in Responses(discussion.ModeratorID) : ModRespondOf(resp)

ModBroadcast ==
    /\ pc = "mod_bcast"
    /\ DoBroadcast(discussion.ID, LogEvent(logEntry))
    /\ Goto(AfterModerator(modKind, roundActive))
    /\ logEntry' = NoEntry
    /\ UNCHANGED <<dbDiscussion, dbLogs, runVars, adapterVars, discussion, agents, debateContext,
                   response, panicked, failures, calls, produced, stopVars, retryVars>>

----------------------------------------------------------------------------
(* executeDebate: the end of the task *)

EngineFinal ==
    /\ pc = "final"
    /\ discussion' = [discussion EXCEPT
                        !.FinalSummary = generateSummary(Topic, debateContext),
                        !.Status = "completed"]
    /\ dbDiscussion' = UpdateDiscussion(dbDiscussion, discussion')
    /\ pc' = "final_bcast"
    /\ UNCHANGED <<dbLogs, runVars, adapterVars, agents, round, idx, roundActive, debateContext,
                   modKind, response, logEntry, panicked, failures, calls, produced,
                   stopVars, retryVars, subVars, offered>>

EngineFinalBroadcast ==
    /\ pc = "final_bcast"
    /\ DoBroadcast(discussion.ID, DiscussionEvent(discussion))
    /\ pc' = "defer"
    /\ UNCHANGED <<dbDiscussion, dbLogs, runVars, adapterVars, discussion, agents, round, idx,
                   roundActive, debateContext, modKind, response, logEntry, panicked,
                   failures, calls, produced, stopVars, retryVars>>

(* a deferred function without recover() *)
DeferredStatusUnrecovered(d, recovered) ==
    IF d.Status = "running" THEN "completed" ELSE d.Status

(* the deferred function of executeDebate *)
DeferredStatus(d, recovered) ==
    IF recovered THEN "failed"
    ELSE IF d.Status = "running" THEN "completed" ELSE d.Status

EngineDeferred ==
    /\ pc = "defer"
    /\ discussion' = [discussion EXCEPT !.Status = DeferredStatus(discussion, panicked)]
    /\ dbDiscussion' = UpdateDiscussion(dbDiscussion, discussion')
    /\ pc' = "done"
    /\ UNCHANGED <<dbLogs, runVars, adapterVars, agents, round, idx, roundActive, debateContext,
                   modKind, response, logEntry, panicked, failures, calls, produced,
                   stopVars, retryVars, subVars, offered>>

----------------------------------------------------------------------------
(* StopDiscussion *)

(* a check that lets every record through *)
IsRunningUnchecked(rec) == TRUE

(* the check of StopDiscussion and of RetryFailedAgent on the record read *)
IsRunning(rec) == rec.Status = "running"

(* GetDiscussion and the status check *)
StopRead(s) ==
    /\ stopPc[s] = "idle"
    /\ IF dbDiscussion = NoRecord
       THEN /\ stopPc' = [stopPc EXCEPT ![s] = "err_notfound"]
            /\ UNCHANGED stopCopy
       ELSE IF ~IsRunning(dbDiscussion)
       THEN /\ stopPc' = [stopPc EXCEPT ![s] = "err_notrunning"]
            /\ UNCHANGED stopCopy
       ELSE /\ stopPc' = [stopPc EXCEPT ![s] = "write"]
            /\ stopCopy' = [stopCopy EXCEPT ![s] = dbDiscussion]
    /\ UNCHANGED <<stoppedAt, dbDiscussion, dbLogs, runVars, adapterVars, engineVars, retryVars,
                   subVars, offered>>

(* discussion.Status = "completed"; return UpdateDiscussion(discussion) *)
StopWrite(s) ==
    /\ stopPc[s] = "write"
    /\ dbDiscussion' = UpdateDiscussion(dbDiscussion,
                                        [stopCopy[s] EXCEPT !.Status = "completed"])
    /\ stopPc' = [stopPc EXCEPT ![s] = IF dbDiscussion = NoRecord
                                       THEN "err_notfound" ELSE "ok"]
    /\ stoppedAt' = [stoppedAt EXCEPT ![s] = IF pc = "inflight"
                                              THEN [calls |-> Len(calls), inflight |-> TRUE]
                                              ELSE NoStop]
    /\ UNCHANGED <<stopCopy, dbLogs, runVars, adapterVars, engineVars, retryVars, subVars, offered>>

----------------------------------------------------------------------------
(* DeleteDiscussion *)

(* DELETE FROM discussions WHERE id = ?: the row of the debate goes.  The
   connection is opened without foreign_keys, so the ON DELETE CASCADE of
   discussion_logs does not act and the rows of the log stay.  A call for an id
   without a row ends in "discussion not found" and changes nothing. *)
DeleteDiscussion ==
    /\ dbDiscussion # NoRecord
    /\ dbDiscussion' = NoRecord
    /\ UNCHANGED <<dbLogs, runVars, adapterVars, engineVars, stopVars, retryVars, subVars, offered>>

----------------------------------------------------------------------------
(* RetryFailedAgent *)

(* GetDiscussion, the status check and GetAgent *)
RetryStart(a) ==
    /\ retryPc = "idle"
    /\ retryCount < MaxRetryCalls
    /\ retryCount' = retryCount + 1
    /\ retryCalls' = 0
    /\ retryAgent' = a
    /\ retryCtx' = <<>>
    /\ IF dbDiscussion = NoRecord \/ ~IsRunning(dbDiscussion) \/ a \notin KnownAgents
       THEN /\ retryResult' = "error"
            /\ UNCHANGED retryPc
       ELSE /\ retryResult' = "none"
            /\ retryPc' = "logs"
    /\ UNCHANGED << dbDiscussion, dbLogs, runVars, adapterVars, engineVars, stopVars,
                   subVars, offered>>

(* a context that is the newest entry alone, whatever its status *)
RetryContextOfNewest(logs) ==
    IF logs = <<>> THEN <<>> ELSE logs[Len(logs)].Content

RECURSIVE RetryContext(_)
RetryContext(logs) ==
    IF logs = <<>> THEN <<>>
    ELSE LET rest == RetryContext(SubSeq(logs, 1, Len(logs) - 1))
             last == logs[Len(logs)]
         IN  IF last.Status = "success"
             THEN (IF Len(rest) > 0 THEN rest \o <<NL, NL>> ELSE rest) \o last.Content
             ELSE rest

(* GetDiscussionLogs, the context, and CallAgent is issued *)
RetryReadLogs ==
    /\ retryPc = "logs"
    /\ retryCtx' = RetryContext(dbLogs)
    /\ retryCalls' = retryCalls + 1
    /\ retryPc' = "inflight"
    /\ UNCHANGED <<retryAgent, retryResult, retryCount, dbDiscussion, dbLogs, runVars, adapterVars,
                   engineVars, stopVars, subVars, offered>>

RetryEntry(a, resp) ==
    [ID |-> 0, DiscussionID |-> DebateID, AgentID |-> a,
     Content |-> IF resp.Err \/ ~resp.Success
                 THEN <<"Retry failed: " \o resp.ErrorMessage>>
                 ELSE resp.Content,
     Status |-> IF resp.Err \/ ~resp.Success THEN "error" ELSE "success",
     IsModerator |-> FALSE]

(* the call returns; return de.db.InsertDiscussionLog(logEntry) *)
RetryRespondOf(resp) ==
    /\ retryPc = "inflight"
    /\ dbLogs' = InsertDiscussionLog(dbLogs, RetryEntry(retryAgent, resp))
    /\ retryResult' = "ok"
    /\ retryPc' = "idle"
    /\ UNCHANGED <<retryAgent, retryCtx, retryCount, retryCalls, dbDiscussion, runVars, adapterVars,
                   engineVars, stopVars, subVars, offered>>

RetryRespond ==
    /\ retryPc = "inflight"
    /\ \E resp \in Responses(retryAgent) : RetryRespondOf(resp)

----------------------------------------------------------------------------
(* Subscribe, Unsubscribe and the listeners *)

(* Subscribe makes channel c, the next one not yet made, c <= n *)
SubscribeUpTo(id, n) ==
    /\ \E c \in 1..n :
         /\ chans[c].state = "unused"
         /\ \A b \in Channels : b < c => chans[b].state # "unused"
         /\ chans' = [chans EXCEPT ![c] = [state |-> "open", key |-> id, buf |-> <<>>]]
         /\ subscribers' = [subscribers EXCEPT ![id] = Append(@, c)]
    /\ UNCHANGED <<sendOnClosed, dbDiscussion, dbLogs, runVars, adapterVars, engineVars, stopVars,
                   retryVars, offered>>

Subscribe(id) == SubscribeUpTo(id, MaxSubs)

(* a viewer of a debate that an engine task is running *)
SubscribeViewer(id) == SubscribeUpTo(id, MaxViewers)

(* a removal that leaves the registry as it was *)
RemoveAtKept(s, i) == s

RemoveAt(s, i) == SubSeq(s, 1, i - 1) \o SubSeq(s, i + 1, Len(s))

Unsubscribe(id, c) ==
    /\ chans[c].state # "unused"
    /\ LET hits == {i \in 1..Len(subscribers[id]) : subscribers[id][i] = c}
       IN  IF hits = {}
           THEN UNCHANGED <<subscribers, chans>>
           ELSE LET i == CHOOSE k \in hits : \A j \in hits : k <= j
                IN  /\ subscribers' = [subscribers EXCEPT ![id] = RemoveAt(@, i)]
                    /\ chans' = [chans EXCEPT ![c].state = "closed"]
    /\ UNCHANGED <<sendOnClosed, dbDiscussion, dbLogs, runVars, adapterVars, engineVars, stopVars,
                   retryVars, offered>>

(* a listener takes the next event off its channel *)
Receive(c) ==
    /\ chans[c].buf # <<>>
    /\ chans' = [chans EXCEPT ![c].buf = Tail(@)]
    /\ UNCHANGED <<subscribers, sendOnClosed, dbDiscussion, dbLogs, runVars, adapterVars,
                   engineVars, stopVars, retryVars, offered>>

----------------------------------------------------------------------------
(* Specifications *)

EngineStep ==
    \/ EngineCall
    \/ EngineRespond
    \/ EngineBroadcast
    \/ ModCall
    \/ ModRespond
    \/ ModBroadcast
    \/ EngineFinal
    \/ EngineFinalBroadcast
    \/ EngineDeferred

(* An engine task of some debate hands an event to broadcast.  The events of
   the debate DebateID are recorded in offered, at most MaxEvents of them. *)
(* an event that names the first debate whatever debate it is of *)
PublishedEventOfFirst(id) ==
    LogEvent([NoEntry EXCEPT !.ID = IF id = DebateID THEN Len(offered) + 1 ELSE 0,
                             !.DiscussionID = DebateID, !.Status = "success"])

PublishedEvent(id) ==
    LogEvent([NoEntry EXCEPT !.ID = IF id = DebateID THEN Len(offered) + 1 ELSE 0,
                             !.DiscussionID = id, !.Status = "success"])

Publish(id) ==
    /\ id = DebateID => Len(offered) < MaxEvents
    /\ broadcastReady(id)
    /\ chans' = broadcast(id, PublishedEvent(id))
    /\ sendOnClosed' = (sendOnClosed \/ broadcastPanics(id))
    /\ offered' = IF id = DebateID THEN Append(offered, PublishedEvent(id)) ELSE offered
    /\ UNCHANGED <<subscribers, dbDiscussion, dbLogs, runVars, adapterVars, engineVars, stopVars,
                   retryVars>>

----------------------------------------------------------------------------
(* Provider adapter: AgentClient *)

(* http.Client{Timeout: 180 * time.Second} *)
ClientTimeout == 180
(* time.Duration(agent.TimeoutSeconds+10) * time.Second *)
TimeoutBuffer == 10
(* context.WithTimeout(ctx, 5*time.Second) of Ping *)
PingTimeout == 5

(* A URL is a sequence of pieces: the scheme and host, then path pieces. *)
Hosts ==
    {"http://localhost:11434", "https://api.openai.com", "https://api.anthropic.com",
     "https://generativelanguage.googleapis.com", "https://llm.example"}

Paths == {<<>>, <<"/v1">>, <<"/v1", "/chat/completions">>, <<"/">>}

ProviderURLs == {<<h>> \o p : h \in Hosts, p \in Paths}

TimeoutChoices == {30, 200}

AgentConfigs ==
    [ProviderType : {"", "anthropic", "custom"},
     ProviderURL : ProviderURLs,
     APIToken : {"", "tok"},
     TimeoutSeconds : TimeoutChoices]

(* the substrings the adapter looks for that a piece holds *)
Holds(piece) ==
    CASE piece = "http://localhost:11434" -> {"localhost:11434"}
      [] piece = "https://api.openai.com" -> {"openai.com"}
      [] piece = "https://api.anthropic.com" -> {"anthropic.com"}
      [] piece = "https://generativelanguage.googleapis.com" ->
             {"googleapis.com", "generativelanguage.googleapis.com"}
      [] piece = "/v1" -> {"/v1"}
      [] piece = "/chat/completions" -> {"/chat/completions"}
      [] OTHER -> {}

(* strings.Contains *)
StrContains(url, sub) == \E i \in 1..Len(url) : sub \in Holds(url[i])

(* strings.HasSuffix and strings.TrimSuffix *)
HasSuffix(url, piece) == url # <<>> /\ url[Len(url)] = piece

TrimSuffix(url, piece) ==
    IF HasSuffix(url, piece) THEN SubSeq(url, 1, Len(url) - 1) ELSE url

detectProviderType(url) ==
    IF StrContains(url, "ollama") \/ StrContains(url, "localhost:11434") THEN "ollama"
    ELSE IF StrContains(url, "openai.com") THEN "openai"
    ELSE IF StrContains(url, "anthropic.com") THEN "anthropic"
    ELSE IF StrContains(url, "googleapis.com") THEN "google"
    ELSE "custom"

(* the header setAuthHeaders puts on a request *)
setAuthHeaders(a) ==
    IF a.APIToken = "" THEN "none"
    ELSE CASE detectProviderType(a.ProviderURL) = "anthropic" -> "x-api-key"
           [] detectProviderType(a.ProviderURL) = "google" -> "x-goog-api-key"
           [] OTHER -> "Authorization"

(* the list with /chat/completions ahead of /v1/chat/completions *)
getChatEndpointsUnversionedFirst(agentURL) ==
    LET baseURL == TrimSuffix(agentURL, "/")
    IN  IF StrContains(baseURL, "/chat/completions") \/ StrContains(baseURL, "/generate")
        THEN <<baseURL>>
        ELSE IF HasSuffix(baseURL, "/v1")
        THEN <<baseURL \o <<"/chat/completions">>>>
        ELSE <<baseURL \o <<"/chat/completions">>,
               baseURL \o <<"/v1", "/chat/completions">>,
               baseURL>>

getChatEndpoints(agentURL) ==
    LET baseURL == TrimSuffix(agentURL, "/")
    IN  IF StrContains(baseURL, "/chat/completions") \/ StrContains(baseURL, "/generate")
        THEN <<baseURL>>
        ELSE IF HasSuffix(baseURL, "/v1")
        THEN <<baseURL \o <<"/chat/completions">>>>
        ELSE <<baseURL \o <<"/v1", "/chat/completions">>,
               baseURL \o <<"/chat/completions">>,
               baseURL>>

(* the endpoint of callGenericCompletion *)
GenericEndpoint(url) == TrimSuffix(url, "/v1") \o <<"/v1", "/chat/completions">>

(* the endpoint of callAnthropic and pingAnthropic *)
MessagesEndpoint(url) ==
    IF StrContains(url, "/v1") THEN url \o <<"/messages">>
    ELSE url \o <<"/v1", "/messages">>

(* the record GetAgent loads: the agents table has no provider_type column *)
GetAgent(a) == [a EXCEPT !.ProviderType = ""]

(* what one HTTP request can meet: 200 with a readable body, 201 with a
   readable body, 200 with an unreadable body, 400, 500, a refused
   connection, a server that never answers *)
Outcomes == {"ok", "created", "garbled", "bad", "fault", "refused", "hang"}

StatusCode(outcome) ==
    CASE outcome \in {"ok", "garbled"} -> 200
      [] outcome = "created" -> 201
      [] outcome = "bad" -> 400
      [] outcome = "fault" -> 500
      [] OTHER -> 0

(* one request per endpoint, in the order callOpenAI's loop takes them *)
callOpenAI(a) ==
    [i \in 1..Len(getChatEndpoints(a.ProviderURL)) |->
        [via |-> "callOpenAI", endpoint |-> getChatEndpoints(a.ProviderURL)[i]]]

callGenericCompletion(a) ==
    <<[via |-> "callGenericCompletion", endpoint |-> GenericEndpoint(a.ProviderURL)]>>

(* callOpenAI first; callGenericCompletion when that did not succeed *)
callCustom(a) == callOpenAI(a) \o callGenericCompletion(a)

callAnthropic(a) ==
    <<[via |-> "callAnthropic", endpoint |-> MessagesEndpoint(a.ProviderURL)]>>

callGoogle(a) ==
    <<[via |-> "callGoogle",
       endpoint |-> IF StrContains(a.ProviderURL, "generativelanguage.googleapis.com")
                    THEN a.ProviderURL \o <<"/models/", "model", ":generateContent">>
                    ELSE a.ProviderURL \o <<"/v1beta/generateContent">>]>>

callOllama(a) ==
    <<[via |-> "callOllama", endpoint |-> a.ProviderURL \o <<"/api/generate">>]>>

(* the requests CallAgent makes until one succeeds *)
CallAgentPlan(a) ==
    LET providerType == detectProviderType(a.ProviderURL)
    IN  CASE providerType = "ollama" -> callOllama(a)
          [] providerType = "openai" -> callOpenAI(a)
          [] providerType = "anthropic" -> callAnthropic(a)
          [] providerType = "google" -> callGoogle(a)
          [] OTHER -> callCustom(a)

pingOllama(a) ==
    <<[via |-> "pingOllama", endpoint |-> a.ProviderURL \o <<"/api/tags">>]>>

pingOpenAI(a) ==
    <<[via |-> "pingOpenAI",
       endpoint |-> IF StrContains(a.ProviderURL, "/v1")
                    THEN a.ProviderURL \o <<"/models">>
                    ELSE a.ProviderURL \o <<"/v1", "/models">>]>>

pingGoogle(a) ==
    <<[via |-> "pingGoogle",
       endpoint |-> IF StrContains(a.ProviderURL, "generativelanguage.googleapis.com")
                    THEN a.ProviderURL \o <<"/models">>
                    ELSE a.ProviderURL \o <<"/v1beta/models">>]>>

pingCustom(a) ==
    [i \in 1..Len(getChatEndpoints(a.ProviderURL)) |->
        [via |-> "pingCustom", endpoint |-> getChatEndpoints(a.ProviderURL)[i]]]

pingAnthropic(a) ==
    <<[via |-> "pingAnthropic", endpoint |-> MessagesEndpoint(a.ProviderURL)]>>

(* the requests Ping makes until one succeeds *)
PingPlan(a) ==
    LET providerType == detectProviderType(a.ProviderURL)
    IN  CASE providerType = "ollama" -> pingOllama(a)
          [] providerType = "openai" -> pingOpenAI(a)
          [] providerType = "anthropic" -> pingAnthropic(a)
          [] providerType = "google" -> pingGoogle(a)
          [] OTHER -> pingCustom(a)

(* pingAnthropic taking 200 alone *)
AnthropicReachableOnlyOK(outcome) == StatusCode(outcome) = 200

(* Accept 200 or 400 (invalid model) as success *)
AnthropicReachable(outcome) == StatusCode(outcome) \in {200, 400}

(* whether the request is the one its caller returns success on *)
RequestSucceeded(via, outcome) ==
    CASE via = "pingAnthropic" -> AnthropicReachable(outcome)
      [] via = "pingCustom" -> StatusCode(outcome) >= 200 /\ StatusCode(outcome) < 300
      [] via \in {"pingOllama", "pingOpenAI", "pingGoogle"} -> StatusCode(outcome) = 200
      [] OTHER -> outcome = "ok"

Min(a, b) == IF a < b THEN a ELSE b

(* the deadline of the context the requests run under *)
Deadline == IF adapterOp = "ping" THEN PingTimeout ELSE agent.TimeoutSeconds + TimeoutBuffer

RequestPlan == IF adapterOp = "ping" THEN PingPlan(GetAgent(agent)) ELSE CallAgentPlan(GetAgent(agent))

(* an agent is saved with the fields of the request *)
ConfigureAgent(a) ==
    /\ adapterPc = "idle"
    /\ agent' = a
    /\ adapterPc' = "ready"
    /\ UNCHANGED <<adapterOp, attempts, elapsed, adapterOut>>
    /\ UNCHANGED <<dbDiscussion, dbLogs, runVars, engineVars, stopVars, retryVars, subVars, offered>>

CallAgent ==
    /\ adapterPc = "ready"
    /\ adapterOp' = "call"
    /\ adapterPc' = "trying"
    /\ attempts' = <<>>
    /\ elapsed' = 0
    /\ UNCHANGED <<agent, adapterOut>>
    /\ UNCHANGED <<dbDiscussion, dbLogs, runVars, engineVars, stopVars, retryVars, subVars, offered>>

Ping ==
    /\ adapterPc = "ready"
    /\ adapterOp' = "ping"
    /\ adapterPc' = "trying"
    /\ attempts' = <<>>
    /\ elapsed' = 0
    /\ UNCHANGED <<agent, adapterOut>>
    /\ UNCHANGED <<dbDiscussion, dbLogs, runVars, engineVars, stopVars, retryVars, subVars, offered>>

(* ac.client.Do on the next endpoint: a request made after the context's
   deadline fails at once; one that never gets an answer is given up at the
   client's timeout or at the deadline, whichever comes first *)
ClientDo(outcome) ==
    /\ adapterPc = "trying"
    /\ IF elapsed >= Deadline THEN outcome = "cancelled" ELSE outcome \in Outcomes
    /\ LET n == Len(attempts) + 1
           step == RequestPlan[n]
           at == IF outcome = "hang" THEN Min(elapsed + ClientTimeout, Deadline) ELSE elapsed
       IN  /\ attempts' = Append(attempts,
                   [via |-> step.via, endpoint |-> step.endpoint,
                    header |-> setAuthHeaders(GetAgent(agent)),
                    outcome |-> outcome, at |-> at])
           /\ elapsed' = at
           /\ IF RequestSucceeded(step.via, outcome)
              THEN adapterPc' = "returned" /\ adapterOut' = "ok"
              ELSE IF n = Len(RequestPlan)
              THEN adapterPc' = "returned" /\ adapterOut' = "error"
              ELSE UNCHANGED <<adapterPc, adapterOut>>
    /\ UNCHANGED <<agent, adapterOp>>
    /\ UNCHANGED <<dbDiscussion, dbLogs, runVars, engineVars, stopVars, retryVars, subVars, offered>>

(* the adapter alone, every agent *)
NextAdapter ==
    \/ \E a \in AgentConfigs : ConfigureAgent(a)
    \/ CallAgent
    \/ Ping
    \/ \E outcome \in Outcomes \cup {"cancelled"} : ClientDo(outcome)

SpecAdapter == Init /\ [][NextAdapter]_vars

(* the engine task alone, every request *)
Next ==
    \/ RunDebate
    \/ EngineStep

Spec == Init /\ [][Next]_vars

(* every adapter call returns and the engine task is scheduled *)
SpecFair == Spec /\ WF_vars(EngineStep)

(* RunDebate step by step, and the engine task it starts *)
NextCreate ==
    \/ \E req \in Requests : RunDebateCall(req)
    \/ \E i \in 1..NumAgents : LookupDone(i)
    \/ RunDebateInsert
    \/ RunDebateReturn
    \/ EngineStep

SpecCreate == Init /\ [][NextCreate]_vars

(* a request run to its end, and the same request run again *)
NextTwice ==
    \/ RunDebateRounded
    \/ EngineStep
    \/ RunAgain

SpecTwice == Init /\ [][NextTwice]_vars

(* the operations on debates, the engine tasks left where they start *)
NextTasks ==
    \/ RunDebateRounded
    \/ RunDebateLater
    \/ \E s \in StopCallers : StopRead(s)
    \/ \E s \in StopCallers : StopWrite(s)
    \/ \E a \in KnownAgents \cup {UnknownAgent} : RetryStart(a)
    \/ RetryReadLogs
    \/ RetryRespond
    \/ \E id \in DiscussionIDs : SubscribeViewer(id)

SpecTasks == Init /\ [][NextTasks]_vars

(* the engine task and StopDiscussion callers *)
NextStop ==
    \/ RunDebateRounded
    \/ EngineStep
    \/ \E s \in StopCallers : StopRead(s)
    \/ \E s \in StopCallers : StopWrite(s)

SpecStop == Init /\ [][NextStop]_vars

(* every adapter call returns and the engine task is scheduled *)
SpecStopFair == SpecStop /\ WF_vars(EngineStep)

(* the engine task and RetryFailedAgent calls *)
NextRetry ==
    \/ RunDebateRounded
    \/ EngineStep
    \/ \E a \in KnownAgents \cup {UnknownAgent} : RetryStart(a)
    \/ RetryReadLogs
    \/ RetryRespond

SpecRetry == Init /\ [][NextRetry]_vars

(* the engine task, RetryFailedAgent calls and the deletion of the record *)
NextDelete ==
    \/ RunDebateRounded
    \/ EngineStep
    \/ \E a \in KnownAgents \cup {UnknownAgent} : RetryStart(a)
    \/ RetryReadLogs
    \/ RetryRespond
    \/ DeleteDiscussion

SpecDelete == Init /\ [][NextDelete]_vars

(* the engine task and the viewers of its debate *)
NextListen ==
    \/ RunDebateRounded
    \/ EngineStep
    \/ \E id \in DiscussionIDs : SubscribeViewer(id)
    \/ \E id \in DiscussionIDs, c \in Channels : Unsubscribe(id, c)
    \/ \E c \in Channels : Receive(c)

SpecListen == Init /\ [][NextListen]_vars

(* requests for a debate of the default three rounds without a moderator *)
ThreeRoundRequests == {req \in Requests : req.maxRounds <= 0 /\ req.moderatorID = None}

RunDebateThreeRounds == \E req \in ThreeRoundRequests : RunDebateOf(req)

(* the steps of an engine task that has no moderator *)
EngineStepUnmoderated ==
    \/ EngineCall
    \/ EngineRespond
    \/ EngineBroadcast
    \/ EngineFinal
    \/ EngineFinalBroadcast
    \/ EngineDeferred

(* the engine task over three rounds and RetryFailedAgent calls *)
NextRetryRounds ==
    \/ RunDebateThreeRounds
    \/ EngineStepUnmoderated
    \/ \E a \in KnownAgents : RetryStart(a)
    \/ RetryReadLogs
    \/ RetryRespond

SpecRetryRounds == Init /\ [][NextRetryRounds]_vars

(* the engine task with a database that may refuse a write *)
NextUnsaved ==
    \/ RunDebateRounded
    \/ EngineStep
    \/ EngineRespondUnsaved

SpecUnsaved == Init /\ [][NextUnsaved]_vars

(* the broadcaster and its listeners *)
NextBroadcast ==
    \/ \E id \in DiscussionIDs : Publish(id)
    \/ \E id \in DiscussionIDs : Subscribe(id)
    \/ \E id \in DiscussionIDs, c \in Channels : Unsubscribe(id, c)
    \/ \E c \in Channels : Receive(c)

SpecBroadcast == Init /\ [][NextBroadcast]_vars

----------------------------------------------------------------------------
(* Statements about the engine.  The history variables calls, produced and
   offered record what the engine task did; no action reads them. *)

Statuses(rec) == rec.Status

(* C1: the persisted status of a debate changes only from running to
   completed or from running to failed; once it is completed or failed it
   never changes to a different value.  (The record's creation, absent to
   running, is not a change of an existing debate's status.) *)
C1_StatusOnlyForward ==
    [][Statuses(dbDiscussion') # Statuses(dbDiscussion)
         => \/ Statuses(dbDiscussion) = "absent" /\ Statuses(dbDiscussion') = "running"
            \/ /\ Statuses(dbDiscussion) = "running"
               /\ Statuses(dbDiscussion') \in {"completed", "failed"}]_vars

(* C2: every participant turn the engine issues goes to the participant at
   that position of the participant-id list passed to RunDebate. *)
C2_CallsInConfiguredOrder ==
    \A k \in 1..Len(calls) :
        calls[k].Kind = "turn" => calls[k].AgentID = discussion.AgentIDs[calls[k].Idx]

(* s holds sub as a run of consecutive symbols *)
Contains(s, sub) ==
    \E i \in 0..(Len(s) - Len(sub)) : SubSeq(s, i + 1, i + Len(sub)) = sub

HasSymbol(s, x) == \E i \in 1..Len(s) : s[i] = x

TurnCalls == {k \in 1..Len(calls) : calls[k].Kind = "turn"}

(* the entry call k ended in, when it has ended in one *)
Answered(k) == k <= Len(produced)

SuccessfulTurn(j) ==
    Answered(j) /\ calls[j].Kind = "turn" /\ produced[j].Status = "success"

FailedTurn(j) ==
    Answered(j) /\ calls[j].Kind = "turn" /\ produced[j].Status = "error"

SuccessfulInterjection(j) ==
    Answered(j) /\ calls[j].IsModerator /\ produced[j].Status = "success"

(* the record of one successful turn as the transcript shows it *)
TranscriptRecord(j) ==
    <<Header(calls[j].Round, produced[j].AgentID), NL>> \o produced[j].Content

(* the records of the successful participant turns among calls 1..n, in order,
   two newlines between neighbours *)
RECURSIVE TranscriptUpTo(_)
TranscriptUpTo(n) ==
    IF n = 0 THEN <<>>
    ELSE IF ~SuccessfulTurn(n) THEN TranscriptUpTo(n - 1)
    ELSE LET before == TranscriptUpTo(n - 1)
         IN  IF before = <<>> THEN TranscriptRecord(n)
             ELSE before \o <<NL, NL>> \o TranscriptRecord(n)

(* C3 as stated: the context passed for a participant turn contains every
   successful entry produced strictly before that turn, successful moderator
   interjections included, and nothing produced at or after that turn. *)
C3_ContextHoldsEveryEarlierSuccess ==
    \A k \in TurnCalls :
        /\ \A j \in 1..(k - 1) :
              SuccessfulTurn(j) \/ SuccessfulInterjection(j)
                  => Contains(calls[k].Context, produced[j].Content)
        /\ \A j \in k..Len(calls) :
              calls[j].Kind = "turn"
                  => ~HasSymbol(calls[k].Context, Header(calls[j].Round, calls[j].AgentID))

(* C3 amended: the context passed for a participant turn is exactly the
   successful participant-turn entries produced strictly before that turn, in
   order, each under its round and participant header; it contains no moderator
   interjection and nothing produced at or after that turn. *)
C3_ContextIsEarlierParticipantSuccesses ==
    \A k \in TurnCalls :
        /\ calls[k].Context = TranscriptUpTo(k - 1)
        /\ \A j \in 1..(k - 1) :
              SuccessfulTurn(j) => Contains(calls[k].Context, produced[j].Content)
        /\ \A j \in 1..Len(produced) :
              produced[j].IsModerator
                  => ~HasSymbol(calls[k].Context, produced[j].Content[1])
        /\ \A j \in k..Len(calls) :
              calls[j].Kind = "turn"
                  => ~HasSymbol(calls[k].Context, Header(calls[j].Round, calls[j].AgentID))

(* a participant turn was issued after two successful turns and a successful
   interjection *)
C3_TurnAfterSuccessesAndInterjection ==
    \E k \in TurnCalls :
        /\ \E i, j \in 1..(k - 1) : i < j /\ SuccessfulTurn(i) /\ SuccessfulTurn(j)
        /\ \E j \in 1..(k - 1) : SuccessfulInterjection(j)

(* C4: a participant turn that ended in an error is in the persisted log with
   status error, the next participant turn is passed the very context the
   failed turn was passed, and no later participant turn's context holds the
   failed turn's header or its error text. *)
C4_FailedTurnLoggedNotInContext ==
    \A j \in TurnCalls :
        FailedTurn(j) =>
            /\ produced[j].ID \in 1..Len(dbLogs)
            /\ dbLogs[produced[j].ID] = produced[j]
            /\ dbLogs[produced[j].ID].Status = "error"
            /\ \A k \in TurnCalls :
                  k > j =>
                    /\ ~HasSymbol(calls[k].Context,
                                  Header(calls[j].Round, produced[j].AgentID))
                    /\ \A i \in 1..Len(produced[j].Content) :
                          ~HasSymbol(calls[k].Context, produced[j].Content[i])
                    /\ (\A m \in TurnCalls : ~(j < m /\ m < k))
                          => calls[k].Context = calls[j].Context

(* a success, then a failed turn, then a later participant turn *)
C4_SuccessErrorThenTurn ==
    \E i, j, k \in TurnCalls :
        i < j /\ j < k /\ SuccessfulTurn(i) /\ FailedTurn(j)
        /\ calls[k].Context # <<>>

(* C5: every persisted log entry with status success has a content no longer
   than the debate's max-character limit. *)
C5_SuccessContentWithinLimit ==
    \A i \in 1..Len(dbLogs) :
        dbLogs[i].Status = "success"
            => Len(dbLogs[i].Content) <= discussion.MaxCharLimit

LogEvents(evs) == {i \in 1..Len(evs) : evs[i].kind = "log"}

(* entries 1..n the engine produced are rows 1..n of the persisted log *)
PersistedUpTo(n) ==
    /\ n <= Len(dbLogs)
    /\ n <= Len(produced)
    /\ \A m \in 1..n : dbLogs[m] = produced[m] /\ dbLogs[m].ID = m

(* C6: the persisted log holds the entries in the order their turns were
   executed; the log events handed to broadcast are, in that same order, the
   entries produced, each one already persisted when it is handed over; and
   every log event in a listener's channel is entry N of the persisted log
   with entries 1..N-1 persisted before it, the channel holding them in
   increasing order. *)
C6_PersistedThenBroadcastInTurnOrder ==
    /\ PersistedUpTo(Len(produced))
    /\ \A k \in 1..Len(produced) :
          produced[k].AgentID = calls[k].AgentID
          /\ produced[k].IsModerator = calls[k].IsModerator
    /\ \A i \in LogEvents(offered) :
          /\ \A j \in 1..i : offered[j].kind = "log"
          /\ PersistedUpTo(i)
          /\ offered[i].log = produced[i]
    /\ pc \in {"bcast", "mod_bcast"} => PersistedUpTo(logEntry.ID)
    /\ \A c \in Channels :
          \A i \in LogEvents(chans[c].buf) :
            /\ PersistedUpTo(chans[c].buf[i].log.ID)
            /\ chans[c].buf[i].log = dbLogs[chans[c].buf[i].log.ID]
            /\ \A j \in LogEvents(chans[c].buf) :
                  j < i => chans[c].buf[j].log.ID < chans[c].buf[i].log.ID

(* a listener is about to receive the third entry of a debate, after a failed
   turn *)
C6_ListenerHoldsThirdEntry ==
    \E c \in Channels :
        /\ chans[c].buf # <<>>
        /\ Head(chans[c].buf).kind = "log"
        /\ Head(chans[c].buf).log.ID = 3
        /\ \E m \in 1..2 : m <= Len(produced) /\ produced[m].Status = "error"

Listening(c) == Subscribed(DebateID, c) /\ chans[c].state = "open"

(* C7: broadcast completes in every listener state, waiting for no listener
   to consume; when an event of the debate is broadcast, every listener of the
   debate whose buffer holds fewer than 10 events has the event appended to its
   buffer, and a listener whose buffer holds 10 events keeps its buffer as it
   is: the event is dropped for it alone. *)
C7_BroadcastNeverBlocksDropsWhenFull ==
    /\ [](\A id \in DiscussionIDs :
            (id = DebateID => Len(offered) < MaxEvents) => ENABLED Publish(id))
    /\ [][offered' # offered =>
            \A c \in Channels :
                IF Listening(c) /\ Len(chans[c].buf) < BufferSize
                THEN chans'[c].buf = Append(chans[c].buf, offered'[Len(offered')])
                ELSE chans'[c] = chans[c]]_vars

(* an event was dropped for a listener whose buffer holds 10 events and
   delivered to another listener of the same debate *)
C7_DroppedForFullDeliveredToOther ==
    \E c, d \in Channels :
        /\ c # d /\ Listening(c) /\ Listening(d)
        /\ Len(chans[c].buf) = BufferSize
        /\ chans[c].buf[BufferSize].log.ID = BufferSize
        /\ Len(offered) = BufferSize + 1
        /\ chans[d].buf # <<>>
        /\ chans[d].buf[Len(chans[d].buf)].log.ID = BufferSize + 1

StopErrors == {"err_notfound", "err_notrunning"}

(* C8: a StopDiscussion call that finds the persisted status running goes on
   to its update, which leaves the persisted status completed and returns
   success; a StopDiscussion call made after some call has returned success
   returns an error and leaves the persisted record unchanged. *)
C8_StopCompletesThenRejects ==
    [][\A s \in StopCallers :
          /\ (stopPc[s] = "idle" /\ stopPc'[s] # "idle" /\ dbDiscussion.Status = "running")
                => stopPc'[s] = "write"
          /\ (stopPc[s] = "write" /\ stopPc'[s] # "write")
                => stopPc'[s] = "ok" /\ dbDiscussion'.Status = "completed"
          /\ (stopPc[s] = "idle" /\ stopPc'[s] # "idle"
                 /\ \E t \in StopCallers : stopPc[t] = "ok")
                => stopPc'[s] \in StopErrors /\ dbDiscussion' = dbDiscussion
          /\ (stopPc[s] \in StopErrors \cup {"ok"}) => stopPc'[s] = stopPc[s]]_vars

(* one call stopped the debate and a later one was rejected while the engine
   task was still at work *)
C8_StoppedThenRejected ==
    \E s, t \in StopCallers :
        /\ stopPc[s] = "ok" /\ stopPc[t] = "err_notrunning"
        /\ pc = "inflight" /\ ~panicked
        /\ dbDiscussion.Status = "completed"

(* the entry of the turn that was in flight when stop s succeeded is in the
   persisted log *)
EntryOfStoppedTurnPersisted(s) ==
    LET n == stoppedAt[s].calls
    IN  /\ n \in 1..Len(produced)
        /\ produced[n].ID \in 1..Len(dbLogs)
        /\ dbLogs[produced[n].ID] = produced[n]
        /\ dbLogs[produced[n].ID].AgentID = calls[n].AgentID

(* ... and has been handed to broadcast *)
EntryOfStoppedTurnOut(s) ==
    /\ EntryOfStoppedTurnPersisted(s)
    /\ \E i \in 1..Len(offered) : offered[i] = LogEvent(produced[stoppedAt[s].calls])

(* C9: StopDiscussion changes nothing of the engine task, and it returns
   while the turn is still in flight; for a debate whose limit is not negative
   the turn that was in flight when StopDiscussion succeeded stays in flight
   until its entry is in the persisted log, with the broadcast of the entry
   the task's next step, and that entry is afterwards in the persisted log and
   handed to broadcast, the persisted status being completed. *)
C9_InFlightTurnStillLogged ==
    /\ [][(stopPc' # stopPc) => UNCHANGED engineVars]_vars
    /\ [][\A s \in StopCallers :
             (stopPc[s] = "write" /\ stopPc'[s] = "ok" /\ pc = "inflight")
                 => pc' = "inflight" /\ stoppedAt'[s].calls = Len(calls)]_vars
    /\ [](\A s \in StopCallers :
            (stoppedAt[s].inflight /\ discussion.MaxCharLimit >= 0)
                => \/ pc = "inflight" /\ Len(calls) = stoppedAt[s].calls
                   \/ /\ EntryOfStoppedTurnPersisted(s)
                      /\ pc = "bcast"
                      /\ logEntry = produced[stoppedAt[s].calls]
                   \/ EntryOfStoppedTurnOut(s))
    /\ \A s \in StopCallers :
          (stoppedAt[s].inflight /\ discussion.MaxCharLimit >= 0)
              ~> (EntryOfStoppedTurnOut(s) /\ dbDiscussion.Status = "completed")

(* a stop has returned success while the turn is in flight, and later that
   turn's entry is out with the status completed *)
C9_StoppedTurnEntryOut ==
    \E s \in StopCallers :
        /\ stopPc[s] = "ok" /\ stoppedAt[s].inflight
        /\ discussion.MaxCharLimit >= 0
        /\ EntryOfStoppedTurnOut(s)
        /\ produced[stoppedAt[s].calls].Status = "success"
        /\ dbDiscussion.Status = "completed"
        /\ pc # "done"

SuccessRows(logs) == {i \in 1..Len(logs) : logs[i].Status = "success"}

(* the rows with status success from the first one with a content on: rows
   before it have nothing to show *)
Spoken(logs) ==
    {i \in SuccessRows(logs) :
        \E j \in SuccessRows(logs) : j <= i /\ logs[j].Content # <<>>}

(* the contents of the rows with status success, in the order of the log, two
   newlines between neighbours, and nothing else *)
RECURSIVE JoinedSuccesses(_, _)
JoinedSuccesses(logs, i) ==
    IF i > Len(logs) THEN <<>>
    ELSE LET rest == JoinedSuccesses(logs, i + 1)
         IN  IF i \notin Spoken(logs) THEN rest
             ELSE IF \E j \in Spoken(logs) : j > i
                  THEN logs[i].Content \o <<NL, NL>> \o rest
                  ELSE logs[i].Content

(* C10: a RetryFailedAgent call that finds the persisted status not running
   returns an error and leaves the log as it is; a call for an existing agent
   on a running debate is passed as context the contents of all entries
   currently persisted with status success, invokes the adapter once, and
   on its return appends one entry for that agent, every existing entry staying
   as it was; no other step of the call touches the log. *)
C10_RetryRejectsOrAppendsOne ==
    [][/\ (retryCount' # retryCount /\ dbDiscussion.Status # "running")
            => retryResult' = "error" /\ retryPc' = "idle" /\ dbLogs' = dbLogs
       /\ (retryCount' # retryCount /\ dbDiscussion.Status = "running"
              /\ retryAgent' \in KnownAgents)
            => retryPc' = "logs" /\ retryCalls' = 0 /\ dbLogs' = dbLogs
       /\ (retryPc = "logs" /\ retryPc' # "logs")
            => /\ retryPc' = "inflight"
               /\ retryCtx' = JoinedSuccesses(dbLogs, 1)
               /\ retryCalls' = 1
               /\ dbLogs' = dbLogs
       /\ (retryPc = "inflight" /\ retryPc' # "inflight")
            => /\ retryPc' = "idle" /\ retryResult' = "ok"
               /\ retryCalls' = 1
               /\ Len(dbLogs') = Len(dbLogs) + 1
               /\ \A i \in 1..Len(dbLogs) : dbLogs'[i] = dbLogs[i]
               /\ dbLogs'[Len(dbLogs')].AgentID = retryAgent
               /\ dbLogs'[Len(dbLogs')].DiscussionID = discussion.ID
       /\ (retryPc = "inflight" /\ retryPc' = "inflight") => retryCalls' = retryCalls]_vars

(* a retry on a running debate was passed two successful entries and not the
   failed one, and its own entry is the last of the log *)
C10_RetriedWithTwoSuccesses ==
    /\ retryResult = "ok" /\ retryCalls = 1
    /\ \E i, j \in SuccessRows(dbLogs) :
          i < j /\ retryCtx = dbLogs[i].Content \o <<NL, NL>> \o dbLogs[j].Content
    /\ \E i \in 1..Len(dbLogs) : dbLogs[i].Status = "error" /\ i < Len(dbLogs)
    /\ dbLogs[Len(dbLogs)].AgentID = retryAgent

----------------------------------------------------------------------------
(* C11..C20 *)

AllResolved(req) ==
    /\ \A i \in 1..Len(req.agentIDs) : req.agentIDs[i] \in KnownAgents
    /\ req.moderatorID = None \/ req.moderatorID \in KnownAgents

NoTaskStarted == \A d \in DiscussionIDs : spawned[d] = 0

(* C11: RunDebate waits for every agent lookup before it goes on; a discussion
   record is persisted (with status running, and its engine task started) only
   when every participant id and the moderator id resolved; when any id does
   not resolve, RunDebate returns an error and no record and no task exist. *)
C11_PersistedOnlyAfterAllResolved ==
    /\ [][createPc = "lookups" /\ createPc' # "lookups" => pending = {}]_vars
    /\ [][dbDiscussion = NoRecord /\ dbDiscussion' # NoRecord =>
            /\ createPc = "lookups" /\ pending = {}
            /\ AllResolved(request)
            /\ Len(found) = Len(request.agentIDs)
            /\ dbDiscussion'.Status = "running"
            /\ spawned'[lastID'] = 1]_vars
    /\ [](createPc \in {"returning", "done"} /\ ~AllResolved(request) =>
            /\ createPc = "done" /\ runResult = "error"
            /\ dbDiscussion = NoRecord /\ NoTaskStarted /\ pc = "idle")
    /\ [](createPc \in {"returning", "done"} /\ AllResolved(request) =>
            dbDiscussion # NoRecord /\ ~NoTaskStarted)

(* one lookup found its agent, another did not: the call ended in an error *)
C11_RejectedAfterPartialLookup ==
    /\ createPc = "done"
    /\ runResult = "error"
    /\ Len(found) >= 1
    /\ lookupErrs >= 1

(* C12: a runtime fault inside the engine task is caught by the task's deferred
   function, which writes status failed to the persisted record; once the task
   has ended the persisted status is not running. *)
C12_FaultEndsFailed ==
    /\ [][panicked /\ pc = "defer" /\ pc' = "done" =>
            dbDiscussion'.Status = "failed"]_vars
    /\ [](pc = "done" => dbDiscussion # NoRecord /\ dbDiscussion.Status # "running")

(* the task faulted, ended, and the record says failed *)
C12_FaultedTaskEnded ==
    /\ pc = "done"
    /\ panicked
    /\ dbDiscussion.Status = "failed"

(* the round limit a debate runs under: its max-round count when positive,
   three otherwise *)
RoundLimit(d) == IF d.MaxRounds > 0 THEN d.MaxRounds ELSE 3

ModeratorCalls == {k \in 1..Len(calls) : calls[k].IsModerator}

(* C13: with every adapter call returning and the engine task scheduled, every
   debate RunDebate started reaches persisted status completed or failed; the
   task issues at most (round limit) x N participant calls, and with a
   moderator at most one opening, one closing and N interjections a round, and
   after its end it issues no call. *)
C13_EveryDebateTerminates ==
    /\ (runResult = "ok") ~>
          (pc = "done" /\ dbDiscussion.Status \in {"completed", "failed"})
    /\ [](runResult = "ok" =>
            /\ Cardinality(TurnCalls) <= RoundLimit(discussion) * Len(agents)
            /\ Cardinality(ModeratorCalls) <=
                  IF discussion.ModeratorID = None THEN 0
                  ELSE 2 + RoundLimit(discussion) * Len(agents))
    /\ [][pc = "done" => pc' = "done" /\ calls' = calls]_vars

(* a debate under the default limit ran all its rounds and ended *)
C13_FullLengthDebateEnded ==
    /\ pc = "done"
    /\ discussion.MaxRounds = 0
    /\ Len(agents) = NumAgents
    /\ Cardinality(TurnCalls) = 3 * NumAgents
    /\ dbDiscussion.Status = "completed"

(* round r was executed: a participant was called in it *)
Executed(r) == \E k \in TurnCalls : calls[k].Round = r

CallsOf(r, i) == {k \in TurnCalls : calls[k].Round = r /\ calls[k].Idx = i}

RoundHadSuccess(r) == \E k \in TurnCalls : calls[k].Round = r /\ SuccessfulTurn(k)

(* C14: once the engine task has ended, every round that was executed has
   exactly one call of every participant, whatever the earlier turns came to,
   and round r+1 was executed exactly when round r had a success and r is
   below the round limit. *)
C14_EveryParticipantEveryRound ==
    pc = "done" =>
        /\ Executed(1)
        /\ \A r \in 1..RoundLimit(discussion) :
              /\ Executed(r) =>
                    \A i \in 1..Len(agents) : Cardinality(CallsOf(r, i)) = 1
              /\ Executed(r + 1) <=>
                    (RoundHadSuccess(r) /\ r < RoundLimit(discussion))

(* every participant's call of round 1 came back without success *)
RoundOneAllFailed ==
    /\ Len(agents) >= 1
    /\ \A i \in 1..Len(agents) : \E k \in CallsOf(1, i) : FailedTurn(k)

(* C15: when every participant's call of round 1 came back without success,
   the engine calls no participant in any later round, whatever the round
   limit, the task does not fault, and the final summary it stores is the
   fixed sentence. *)
C15_NoSuccessInRoundOneEndsDebate ==
    RoundOneAllFailed =>
        /\ \A k \in TurnCalls : calls[k].Round = 1
        /\ ~panicked
        /\ pc = "done" =>
              /\ dbDiscussion.FinalSummary = NoResponses
              /\ dbDiscussion.Status = "completed"

(* round 1 of a debate under the default limit of three rounds failed
   entirely, and the task ended *)
C15_FailedRoundOneUnderThreeRounds ==
    /\ RoundOneAllFailed
    /\ Len(agents) = NumAgents
    /\ discussion.MaxRounds = 0
    /\ pc = "done"
    /\ dbDiscussion.FinalSummary = NoResponses

ParticipantRows(logs) == {i \in 1..Len(logs) : ~logs[i].IsModerator}

(* C16: for a debate of N participants without a moderator, once the engine
   task has ended the persisted log holds at least N and at most N x (round
   limit) participant entries. *)
C16_EntriesBetweenNAndNR ==
    (pc = "done" /\ discussion.ModeratorID = None) =>
        /\ Cardinality(ParticipantRows(dbLogs)) >= Len(agents)
        /\ Cardinality(ParticipantRows(dbLogs)) <= Len(agents) * RoundLimit(discussion)

(* row i of the persisted log was handed to broadcast *)
RowOffered(i) ==
    \E j \in 1..Len(offered) : offered[j].kind = "log" /\ offered[j].log = dbLogs[i]

(* the persisted status was handed to broadcast in a discussion record *)
StatusOffered ==
    \E j \in 1..Len(offered) :
        offered[j].kind = "discussion" /\ offered[j].disc.Status = dbDiscussion.Status

(* C17: every entry in the persisted log, whether of a participant turn, of a
   moderator interjection or of RetryFailedAgent, was handed to broadcast, the
   entry the engine task has just saved being handed over in its next step;
   and once the task has ended, the terminal status in the persisted record
   was handed to broadcast. *)
C17_EveryEntryAndEndBroadcast ==
    /\ \A i \in 1..Len(dbLogs) :
          \/ RowOffered(i)
          \/ pc \in {"bcast", "mod_bcast"} /\ logEntry = dbLogs[i]
    /\ pc = "done" => StatusOffered

(* C18: when a request has been run twice and in both runs every call came
   back with its participant's content, the persisted log of the second run
   has the same speakers and contents in the same order as that of the first. *)
C18_TwoRunsSameTranscript ==
    (firstLog # NoLog /\ pc = "done" /\ failures = 0) =>
        Transcript(dbLogs) = firstLog

(* C19: RunDebate returns whatever the engine task is doing, no adapter call
   of the debate having to return first, and the record its caller reads has
   status running. *)
C19_ReturnsRunningRecord ==
    /\ createPc = "returning" => ENABLED RunDebateReturn
    /\ (createPc = "done" /\ runResult = "ok") => handed = "running"

(* C20: no debate id ever has more than one engine task; the ids given out so
   far have one task each and no other id has any; a task is started only in
   a step that gives out a fresh id, for that id; and no step of
   StopDiscussion, RetryFailedAgent or Subscribe starts a task. *)
C20_OneTaskPerDebate ==
    /\ [](\A d \in DiscussionIDs : spawned[d] = IF d <= lastID THEN 1 ELSE 0)
    /\ [][spawned' # spawned =>
            /\ lastID' = lastID + 1
            /\ spawned[lastID'] = 0
            /\ spawned' = [spawned EXCEPT ![lastID'] = 1]]_vars
    /\ [][(stopVars' # stopVars \/ retryVars' # retryVars \/ subVars' # subVars)
            => spawned' = spawned /\ lastID' = lastID]_vars

(* two debates were started, a stop and a retry have succeeded on the first
   and a listener is subscribed to it *)
C20_TwoDebatesStoppedRetriedWatched ==
    /\ lastID = 2
    /\ spawned[1] = 1
    /\ spawned[2] = 1
    /\ \E s \in StopCallers : stopPc[s] = "ok"
    /\ retryResult = "ok"
    /\ subscribers[1] # <<>>

(* C21: the rows of the persisted log are in the order they were inserted,
   their ids strictly increasing; every step leaves every row already
   inserted where it is and as it is, so the log only grows at its end, also
   while RetryFailedAgent inserts beside the engine task and when the record
   of the debate is deleted. *)
C21_LogOrderedAndOnlyAppended ==
    /\ [](\A i \in 1..Len(dbLogs) : dbLogs[i].ID = i)
    /\ [][/\ Len(dbLogs') >= Len(dbLogs)
          /\ \A i \in 1..Len(dbLogs) :
                i <= Len(dbLogs') /\ dbLogs'[i] = dbLogs[i]]_vars

(* the record was deleted while the task was in a turn; the rows inserted
   before, one of them by RetryFailedAgent, are in the log and the task has
   added another *)
C21_RowsKeptAfterDelete ==
    /\ dbDiscussion = NoRecord
    /\ runResult = "ok"
    /\ retryResult = "ok"
    /\ Len(dbLogs) >= 3
    /\ pc = "inflight"

Notice == <<"... (see full discussion for more details)">>

(* the summary the task has stored is the one of its transcript *)
SummaryStored == pc \in {"final_bcast", "defer", "done"} /\ ~panicked

(* C22: the stored summary of an empty transcript is the fixed sentence; that
   of a non-empty transcript starts with the header naming the topic, holds
   every non-blank line among the transcript's leading five lines as a bullet
   point, and ends with the truncation notice exactly when the transcript has
   more than five lines. *)
C22_SummaryBulletsLeadingLines ==
    SummaryStored =>
        LET lines == SplitLines(debateContext, <<>>)
            summary == discussion.FinalSummary
        IN  IF debateContext = <<>> THEN summary = NoResponses
            ELSE /\ Head(summary) = "Debate Summary for: " \o Topic
                 /\ \A i \in 1..Len(lines) :
                       (i <= 5 /\ lines[i] # <<>>) =>
                           Contains(summary, <<"- ">> \o lines[i] \o <<NL>>)
                 /\ Contains(summary, Notice) <=> Len(lines) > 5

----------------------------------------------------------------------------
(* the kind the agent was configured with, detection standing in when none was *)
ConfiguredKind ==
    IF agent.ProviderType # "" THEN agent.ProviderType
    ELSE detectProviderType(agent.ProviderURL)

(* the functions that serve a kind *)
ServedBy(kind) ==
    CASE kind = "ollama" -> {"callOllama", "pingOllama"}
      [] kind = "openai" -> {"callOpenAI", "pingOpenAI"}
      [] kind = "anthropic" -> {"callAnthropic", "pingAnthropic"}
      [] kind = "google" -> {"callGoogle", "pingGoogle"}
      [] OTHER -> {"callOpenAI", "callGenericCompletion", "pingCustom"}

HeaderOf(kind) ==
    IF agent.APIToken = "" THEN "none"
    ELSE CASE kind = "anthropic" -> "x-api-key"
           [] kind = "google" -> "x-goog-api-key"
           [] OTHER -> "Authorization"

(* C23: every request of CallAgent and Ping is made by the function that
   serves the agent's configured kind and carries that kind's header; the
   kind detected from the URL counts only for an agent configured with no
   kind. *)
C23_ConfiguredKindDispatches ==
    \A i \in 1..Len(attempts) :
        /\ attempts[i].via \in ServedBy(ConfiguredKind)
        /\ attempts[i].header = HeaderOf(ConfiguredKind)

----------------------------------------------------------------------------
(* a CallAgent invocation on an agent served as generic/custom *)
CustomCall ==
    /\ adapterOp = "call"
    /\ detectProviderType(agent.ProviderURL) = "custom"

CompleteEndpoint == \E i \in 1..Len(agent.ProviderURL) : agent.ProviderURL[i] = "/chat/completions"

BaseURL ==
    IF agent.ProviderURL[Len(agent.ProviderURL)] = "/"
    THEN SubSeq(agent.ProviderURL, 1, Len(agent.ProviderURL) - 1)
    ELSE agent.ProviderURL

(* the chat endpoints in the order the specification gives them *)
ClaimedEndpoints ==
    IF CompleteEndpoint THEN <<BaseURL>>
    ELSE <<BaseURL \o <<"/chat/completions">>,
           BaseURL \o <<"/v1", "/chat/completions">>,
           BaseURL>>

(* the chat endpoints in the order the adapter takes them *)
ChatEndpoints ==
    IF CompleteEndpoint THEN <<BaseURL>>
    ELSE IF BaseURL[Len(BaseURL)] = "/v1" THEN <<BaseURL \o <<"/chat/completions">>>>
    ELSE <<BaseURL \o <<"/v1", "/chat/completions">>,
           BaseURL \o <<"/chat/completions">>,
           BaseURL>>

(* C24 as stated: the endpoints of a generic/custom agent are attempted in
   the order /chat/completions, /v1/chat/completions, bare base URL; the
   first that returns a parseable 2xx response wins and is the last one
   attempted; a complete endpoint is the only one attempted. *)
C24_UnversionedEndpointFirst ==
    CustomCall =>
        /\ Len(attempts) <= Len(ClaimedEndpoints)
        /\ \A i \in 1..Len(attempts) :
               /\ i <= Len(ClaimedEndpoints) => attempts[i].endpoint = ClaimedEndpoints[i]
               /\ attempts[i].outcome \in {"ok", "created"} =>
                      i = Len(attempts) /\ adapterOut = "ok"

(* C24: the chat endpoints of a generic/custom agent are attempted in the
   order /v1/chat/completions, /chat/completions, bare base URL (a base URL
   that ends in /v1 has the one chat endpoint base/chat/completions, a
   complete endpoint is the only chat endpoint); the first that returns a
   parseable 200 response wins and is the last request made; when every
   chat endpoint has failed, one request in the generic completion format
   goes to /v1/chat/completions. *)
C24_VersionedEndpointFirst ==
    CustomCall =>
        /\ Len(attempts) <= Len(ChatEndpoints) + 1
        /\ \A i \in 1..Len(attempts) :
               /\ i <= Len(ChatEndpoints) =>
                      /\ attempts[i].via = "callOpenAI"
                      /\ attempts[i].endpoint = ChatEndpoints[i]
               /\ i = Len(ChatEndpoints) + 1 =>
                      /\ attempts[i].via = "callGenericCompletion"
                      /\ attempts[i].endpoint =
                             (IF agent.ProviderURL[Len(agent.ProviderURL)] = "/v1"
                              THEN SubSeq(agent.ProviderURL, 1, Len(agent.ProviderURL) - 1)
                              ELSE agent.ProviderURL) \o <<"/v1", "/chat/completions">>
               /\ attempts[i].outcome = "ok" =>
                      i = Len(attempts) /\ adapterPc = "returned" /\ adapterOut = "ok"
               /\ i > 1 => attempts[i - 1].outcome # "ok"

(* the second endpoint answered after the first gave a 201 *)
C24_SecondEndpointWon ==
    /\ CustomCall
    /\ ~CompleteEndpoint
    /\ Len(attempts) = 2
    /\ attempts[1].outcome = "created"
    /\ attempts[2].outcome = "ok"
    /\ adapterPc = "returned"
    /\ adapterOut = "ok"

----------------------------------------------------------------------------
(* C25: a Ping served by the message probe (pingAnthropic) returns ok when
   the endpoint answers 400, as it does when it answers 200, and returns
   an error for every other status. *)
C25_ProbeTakes400As200 ==
    \A i \in 1..Len(attempts) :
        attempts[i].via = "pingAnthropic" =>
            /\ adapterPc = "returned"
            /\ StatusCode(attempts[i].outcome) \in {200, 400} => adapterOut = "ok"
            /\ StatusCode(attempts[i].outcome) \notin {200, 400} => adapterOut = "error"

(* the probe was answered 400 *)
C25_ProbeAnswered400 ==
    /\ adapterOp = "ping"
    /\ Len(attempts) = 1
    /\ attempts[1].via = "pingAnthropic"
    /\ attempts[1].outcome = "bad"
    /\ adapterOut = "ok"

----------------------------------------------------------------------------
(* C26: a request of CallAgent that gets no answer is given up exactly
   TimeoutSeconds + 10 seconds after the invocation began, and nothing in
   the adapter gives it up earlier. *)
C26_AbortedAtTimeoutPlusBuffer ==
    adapterOp = "call" =>
        \A i \in 1..Len(attempts) :
            attempts[i].outcome = "hang" =>
                attempts[i].at = agent.TimeoutSeconds + TimeoutBuffer

----------------------------------------------------------------------------
(* call k + 1 is the one the sequence of turns puts after call k *)
FollowsInOrder(k) ==
    LET c == calls[k]
        d == calls[k + 1]
    IN  CASE c.Kind = "opening" -> d.Kind = "turn" /\ d.Round = 1 /\ d.Idx = 1
          [] c.Kind = "turn" /\ c.Idx < Len(agents) ->
                 d.Kind = "interim" /\ d.Round = c.Round
          [] c.Kind = "turn" /\ c.Idx >= Len(agents) ->
                 d.Kind = "round_summary" /\ d.Round = c.Round
          [] c.Kind = "interim" ->
                 d.Kind = "turn" /\ d.Round = c.Round /\ d.Idx = c.Idx + 1
          [] c.Kind = "round_summary" ->
                 \/ d.Kind = "turn" /\ d.Round = c.Round + 1 /\ d.Idx = 1
                 \/ d.Kind = "closing"
          [] OTHER -> FALSE

(* C27: with a moderator, the calls of the engine task are the opening, then
   in each round the turn of participant i = 1..N, each but the last followed
   by an interim interjection, then the round_summary, and after the last
   round the closing; a task that has ended has made them all, the
   round_summary of a round with no success included. *)
C27_ModeratorSequence ==
    (runResult = "ok" /\ discussion.ModeratorID # None) =>
        /\ Len(calls) >= 1 => calls[1].Kind = "opening"
        /\ \A k \in 1..(Len(calls) - 1) : FollowsInOrder(k)
        /\ pc = "done" => (Len(calls) >= 1 /\ calls[Len(calls)].Kind = "closing")

----------------------------------------------------------------------------
(* C28: the entry the engine writes for a participant turn has status
   success exactly when the call returned no error and a response with
   Success true, and status error in every other case; no entry the engine
   writes, of a participant or of the moderator, has another status. *)
C28_StatusFromOutcome ==
    /\ [](\A i \in 1..Len(dbLogs) : dbLogs[i].Status \in {"success", "error"})
    /\ [][pc = "inflight" =>
             \A resp \in Responses(agents[idx]) :
                 (EngineRespondOf(resp) /\ Len(produced') > Len(produced)) =>
                     /\ (~resp.Err /\ resp.Success) =>
                            produced'[Len(produced')].Status = "success"
                     /\ (resp.Err \/ ~resp.Success) =>
                            produced'[Len(produced')].Status = "error"]_vars

(* a debate in which one turn was logged with success and one with error *)
C28_BothStatusesWritten ==
    /\ \E i \in 1..Len(dbLogs) : ~dbLogs[i].IsModerator /\ dbLogs[i].Status = "success"
    /\ \E i \in 1..Len(dbLogs) : ~dbLogs[i].IsModerator /\ dbLogs[i].Status = "error"

----------------------------------------------------------------------------
(* the first min(len(c), L) symbols of c *)
Leading(c, L) == SubSeq(c, 1, IF Len(c) < L THEN Len(c) ELSE L)

(* C29: when a participant call returns success with content c under a
   limit L >= 0, the entry persisted and the text appended to the transcript
   both carry the first min(len(c), L) symbols of c, and the interim
   interjection that follows is called with the whole of c. *)
C29_TruncatedLoggedRawToModerator ==
    /\ [][(pc = "inflight" /\ discussion.MaxCharLimit >= 0) =>
             \A resp \in Responses(agents[idx]) :
                 (EngineRespondOf(resp) /\ ~resp.Err /\ resp.Success) =>
                     LET c == resp.Content
                         L == discussion.MaxCharLimit
                     IN  /\ Len(dbLogs') = Len(dbLogs) + 1
                         /\ dbLogs'[Len(dbLogs')].Content = Leading(c, L)
                         /\ debateContext' =
                                (IF debateContext = <<>> THEN <<>>
                                 ELSE debateContext \o <<NL, NL>>)
                                \o <<Header(round, agents[idx]), NL>> \o Leading(c, L)
                         /\ response' = c]_vars
    /\ [][(pc = "mod_call" /\ modKind = "interim" /\ pc' = "mod_inflight") =>
             calls'[Len(calls')].Input = response]_vars
    /\ [][(pc' = "mod_call" /\ modKind' = "interim") => response' = response]_vars

(* an interim interjection was called with more than the entry before it holds *)
C29_InterimGotMoreThanLogged ==
    \E k \in 2..Len(calls) :
        /\ calls[k].Kind = "interim"
        /\ SuccessfulTurn(k - 1)
        /\ discussion.MaxCharLimit >= 0
        /\ Len(calls[k].Input) > Len(produced[k - 1].Content)
        /\ calls[k].Input = ContentOf(calls[k - 1].AgentID)

----------------------------------------------------------------------------
(* C30: of the StopDiscussion calls made on one running debate, at most one
   returns success, and every other call that has returned did so with
   "discussion is not running". *)
C30_OneStopSucceeds ==
    /\ Cardinality({s \in StopCallers : stopPc[s] = "ok"}) <= 1
    /\ \A s, t \in StopCallers :
           (s # t /\ stopPc[s] = "ok" /\ stopPc[t] \notin {"idle", "write"}) =>
               stopPc[t] = "err_notrunning"

----------------------------------------------------------------------------
(* the engine task has stored the final summary it computed *)
SummaryPersistedByEngine ==
    /\ runResult = "ok"
    /\ pc \in {"final_bcast", "defer", "done"}
    /\ ~panicked

(* C31: once the engine task has persisted the final summary, the persisted
   final summary is the one the engine computed, whatever StopDiscussion
   calls are interleaved with the task. *)
C31_SummaryKeptUnderStop ==
    SummaryPersistedByEngine =>
        dbDiscussion.FinalSummary = generateSummary(Topic, debateContext)

----------------------------------------------------------------------------
(* C32: a step of StopDiscussion changes nothing but the persisted status:
   the state of the engine task (its calls, its transcript), the persisted
   log, the persisted summary and the subscriber registry stay as they are;
   the engine task can always take its next step, reaches its end after a
   successful stop, and a task that did not fault stores the summary it
   computed from its transcript. *)
C32_StopChangesStatusOnly ==
    /\ [][stopPc' # stopPc =>
             /\ UNCHANGED <<engineVars, subVars, dbLogs>>
             /\ dbDiscussion'.FinalSummary = dbDiscussion.FinalSummary]_vars
    /\ []((runResult = "ok" /\ pc # "done") => ENABLED EngineStep)
    /\ [][(pc = "final" /\ pc' = "final_bcast") =>
             dbDiscussion'.FinalSummary = generateSummary(Topic, debateContext)]_vars
    /\ ((\E s \in StopCallers : stopPc[s] = "ok") ~> (pc = "done"))


----------------------------------------------------------------------------
(* C33: broadcast never sends on a closed channel; a channel in the registry
   is open and is there once, under the id it was subscribed with, so a
   channel is closed once; Unsubscribe with a channel that is not registered
   under the given id (closed already, or registered under another id)
   changes nothing; a closed channel stays closed and gets no further
   event. *)
C33_NoSendOnClosedNoDoubleClose ==
    /\ [](~sendOnClosed)
    /\ [](\A id \in DiscussionIDs :
            \A i \in 1..Len(subscribers[id]) :
                /\ chans[subscribers[id][i]].state = "open"
                /\ chans[subscribers[id][i]].key = id
                /\ \A j \in 1..Len(subscribers[id]) :
                       subscribers[id][j] = subscribers[id][i] => j = i)
    /\ [][\A c \in Channels :
             /\ (chans[c].state # "closed" /\ chans'[c].state = "closed") =>
                    /\ Subscribed(chans[c].key, c)
                    /\ \A id \in DiscussionIDs :
                           \A i \in 1..Len(subscribers'[id]) : subscribers'[id][i] # c
             /\ chans[c].state = "closed" =>
                    /\ chans'[c].state = "closed"
                    /\ Len(chans'[c].buf) <= Len(chans[c].buf)
             /\ \A id \in DiscussionIDs :
                    (~Subscribed(id, c) /\ Unsubscribe(id, c)) =>
                        UNCHANGED <<subscribers, chans>>]_vars

(* an event went to a listener after another listener of the debate had
   unsubscribed *)
C33_PublishedAfterUnsubscribe ==
    \E c, d \in Channels :
        /\ chans[c].state = "closed" /\ chans[c].key = DebateID
        /\ Len(chans[c].buf) = 1 /\ chans[c].buf[1].log.ID = 1
        /\ Listening(d)
        /\ Len(chans[d].buf) = 2 /\ chans[d].buf[2].log.ID = 2

----------------------------------------------------------------------------
(* C34: a channel is empty when Subscribe returns it; afterwards its content
   changes only by the listener taking the event at its head or by the event
   that is being broadcast going to its end, so what a listener receives is,
   in order and without repetition, a subsequence of the events broadcast
   for its debate after it subscribed. *)
C34_ListenerGetsLaterEventsInOrder ==
    /\ [][\A c \in Channels :
             /\ (chans[c].state = "unused" /\ chans'[c].state # "unused") =>
                    chans'[c].buf = <<>>
             /\ chans[c].state # "unused" =>
                    \/ chans'[c].buf = chans[c].buf
                    \/ chans[c].buf # <<>> /\ chans'[c].buf = Tail(chans[c].buf)
                    \/ /\ chans[c].key = DebateID
                       /\ Len(offered') = Len(offered) + 1
                       /\ chans'[c].buf = Append(chans[c].buf, offered'[Len(offered')])
                    \/ /\ chans[c].key # DebateID
                       /\ chans'[c].buf = Append(chans[c].buf, PublishedEvent(chans[c].key))]_vars
    /\ [](\A c \in Channels :
            chans[c].key = DebateID =>
                \A i, j \in 1..Len(chans[c].buf) :
                    i < j => chans[c].buf[i].log.ID < chans[c].buf[j].log.ID)
    /\ [](\A i \in 1..Len(offered) : offered[i].log.ID = i)

(* a listener holds the second and third event of the debate, another all
   three *)
C34_LateListenerHoldsLaterEvents ==
    \E c, d \in Channels :
        /\ Listening(c) /\ Listening(d)
        /\ Len(offered) = 3
        /\ Len(chans[c].buf) = 3
        /\ Len(chans[d].buf) = 2
        /\ chans[d].buf[1].log.ID = 2
        /\ chans[d].buf[2].log.ID = 3

----------------------------------------------------------------------------
(* C35: every event in a channel is an event of the debate the channel was
   subscribed under, and the broadcast of an event of one debate leaves the
   channels of every other debate as they are. *)
C35_OnlyOwnDebateDelivered ==
    /\ [](\A c \in Channels :
            \A i \in 1..Len(chans[c].buf) :
                /\ chans[c].buf[i].id = chans[c].key
                /\ chans[c].buf[i].log.DiscussionID = chans[c].key)
    /\ [][\A id \in DiscussionIDs :
             Publish(id) =>
                 \A c \in Channels : chans[c].key # id => chans'[c] = chans[c]]_vars

(* listeners of two debates each hold an event of their own debate *)
C35_TwoDebatesTwoListeners ==
    \E c, d \in Channels :
        /\ Listening(c)
        /\ chans[d].state = "open" /\ chans[d].key # DebateID
        /\ Subscribed(chans[d].key, d)
        /\ chans[c].buf # <<>>
        /\ chans[d].buf # <<>>

----------------------------------------------------------------------------
(* the retry call has appended an entry with status success *)
RetrySucceeded ==
    /\ retryResult = "ok"
    /\ \E i \in 1..Len(dbLogs) :
           /\ dbLogs[i].Status = "success"
           /\ \A k \in 1..Len(produced) : produced[k].ID # i

(* C36: no step of RetryFailedAgent changes the transcript or the
   round-activity flag of the engine task; the context passed to every
   participant turn is the transcript of the engine's own successful turns
   before it, and a further round is begun exactly on a round in which a
   turn of the engine itself succeeded, whether or not a retry ran or
   succeeded meanwhile. *)
C36_RetryLeavesEngineTranscript ==
    /\ [][retryVars' # retryVars =>
             UNCHANGED <<debateContext, roundActive, round, idx, calls, produced>>]_vars
    /\ [](\A k \in TurnCalls : calls[k].Context = TranscriptUpTo(k - 1))
    /\ [][(round >= 1 /\ round' = round + 1) => RoundHadSuccess(round)]_vars
    /\ []((pc = "done" /\ ~panicked /\ runResult = "ok") =>
            ~(RoundHadSuccess(round) /\ round < RoundLimit(discussion)))

(* the only turn of round 1 failed, a retry succeeded while the task was at
   work, and the task ended after that round *)
C36_RetrySucceededRoundStillEnded ==
    /\ RetrySucceeded
    /\ pc = "done"
    /\ round = 1
    /\ Len(calls) = Len(agents)
    /\ \A k \in TurnCalls : FailedTurn(k)
    /\ dbDiscussion.FinalSummary = NoResponses

----------------------------------------------------------------------------
(* C37: whenever the context passed to a participant turn holds the record
   of an earlier turn, that turn's entry is in the persisted log with status
   success and the content the context holds, also when the write of an
   entry has failed. *)
C37_TranscriptBackedByLog ==
    \A k \in TurnCalls :
        \A j \in 1..(k - 1) :
            (/\ calls[j].Kind = "turn"
             /\ j <= Len(produced)
             /\ HasSymbol(calls[k].Context, Header(calls[j].Round, calls[j].AgentID))) =>
                /\ produced[j].ID \in 1..Len(dbLogs)
                /\ dbLogs[produced[j].ID].Status = "success"
                /\ dbLogs[produced[j].ID].AgentID = calls[j].AgentID
                /\ dbLogs[produced[j].ID].Content = produced[j].Content

----------------------------------------------------------------------------
(* C38: in a debate with a negative max-character limit the first participant
   call that returns success faults in the truncation: no entry is persisted
   or broadcast for it and the task goes to its deferred function; a task
   that faulted has stored no final summary and broadcast no discussion
   record, the persisted log holds no successful participant entry, and the
   task ends with the persisted status failed. *)
C38_NegativeLimitFaultEndsFailed ==
    /\ [][(discussion.MaxCharLimit < 0 /\ pc = "inflight") =>
             \A resp \in Responses(agents[idx]) :
                 (EngineRespondOf(resp) /\ ~resp.Err /\ resp.Success) =>
                     /\ panicked'
                     /\ pc' = "defer"
                     /\ dbLogs' = dbLogs
                     /\ offered' = offered]_vars
    /\ [](discussion.MaxCharLimit < 0 =>
            \A i \in 1..Len(dbLogs) :
                dbLogs[i].IsModerator \/ dbLogs[i].Status # "success")
    /\ [](panicked =>
            /\ discussion.MaxCharLimit < 0
            /\ dbDiscussion.FinalSummary = <<>>
            /\ \A i \in 1..Len(offered) : offered[i].kind # "discussion"
            /\ pc \in {"defer", "done"}
            /\ pc = "done" => dbDiscussion.Status = "failed")

(* the first participant failed, the second answered and the task faulted
   and ended *)
C38_FaultAfterFailedTurn ==
    /\ panicked
    /\ pc = "done"
    /\ discussion.MaxCharLimit < 0
    /\ Len(calls) = 2
    /\ Len(dbLogs) = 1
    /\ dbLogs[1].Status = "error"
    /\ dbDiscussion.Status = "failed"
    /\ dbDiscussion.FinalSummary = <<>>

====
